---- MODULE Spec2Model ----
(***************************************************************************)
(* Model of the dynamic processor registry (src/src/processor-registry.js, *)
(* extended by src/unnamed/part_012) and of the topic processor base class *)
(* (src/unnamed/part_011).                                                 *)
(*                                                                         *)
(* JavaScript values are records [type, val]; a Map is the sequence of its *)
(* entries in insertion order; a result object is a record holding exactly *)
(* the fields the code puts in it; an ISO timestamp is the clock reading   *)
(* it was formatted from.                                                  *)
(***************************************************************************)
EXTENDS Integers, Sequences, FiniteSets, TLC

VARIABLES
  processors,         \* this.processors: Map topic -> processor
  processorVersions,  \* this.processorVersions: Map topic -> version record
  registryStats,      \* this.registryStats
  processorFiles,     \* this.processorFiles: Map file name -> file record
  refreshTimer,       \* this.refreshTimer: the interval handle, or null
  timers,             \* the runtime's armed interval timers
  config,             \* autoRefresh, refreshInterval, fileExtensions
  files,              \* the processors directory: file name -> file
  now,                \* the clock read by Date.now() and new Date()
  pending,            \* processMessage calls awaiting processor.process
  last,               \* the last call: operation, arguments, outcome, events
  registeredTopics,   \* history: topics whose last lifecycle event added them
  procCall,           \* KafkaTopicProcessor.process: the last call
  accessor            \* the KafkaAccessor owning the registry, and its calls in flight

vars == <<processors, processorVersions, registryStats, processorFiles,
          refreshTimer, timers, config, files, now, pending, last,
          registeredTopics, procCall, accessor>>

\* The registry's own state
registryVars == <<processors, processorVersions, registryStats, processorFiles,
                  refreshTimer, timers, config>>

-----------------------------------------------------------------------------
(* Bounds of the model *)

\* The clock takes the readings 0..MaxClock.
MaxClock == 1

\* At most MaxOps successful register/update/deregister calls.
MaxOps == 2

\* At most MaxPending processMessage calls are in flight.
MaxPending == 2

\* At most MaxPasses discovery passes run to completion.
MaxPasses == 2

\* At most MaxListing discovery passes wait for the topic list at a time.
MaxListing == 1

\* At most MaxMessages messages reach a getMessageFromTopic call.
MaxMessages == 2

-----------------------------------------------------------------------------
(* JavaScript values *)

Str(s) == [type |-> "string", val |-> s]
JsNull == [type |-> "null", val |-> ""]
JsUndefined == [type |-> "undefined", val |-> ""]
JsNum(s) == [type |-> "number", val |-> s]

\* !v
Falsy(v) ==
  \/ v.type \in {"null", "undefined"}
  \/ v.type = "string" /\ v.val = ""
  \/ v.type = "number" /\ v.val = "0"

\* `${v}`
ToStr(v) == IF v.type \in {"null", "undefined"} THEN v.type ELSE v.val

ValidTopics == {Str("a"), Str("b")}
\* "" fails !topic, 42 fails typeof topic !== 'string'
InvalidTopics == {Str(""), JsNum("42")}
TopicArgs == ValidTopics \cup InvalidTopics

\* Processor arguments. 0 is null. 1 and 2 are two distinct objects of the
\* same shape, 3 has another name and 4 has no process property.
ProcTable ==
  [i \in 0..4 |->
     CASE i = 0 -> [isNull |-> TRUE,  name |-> "",  ctor |-> "",       process |-> "undefined", getInfo |-> "undefined"]
       [] i = 1 -> [isNull |-> FALSE, name |-> "A", ctor |-> "Object", process |-> "function",  getInfo |-> "undefined"]
       [] i = 2 -> [isNull |-> FALSE, name |-> "A", ctor |-> "Object", process |-> "function",  getInfo |-> "undefined"]
       [] i = 3 -> [isNull |-> FALSE, name |-> "B", ctor |-> "Object", process |-> "function",  getInfo |-> "undefined"]
       [] OTHER -> [isNull |-> FALSE, name |-> "B", ctor |-> "Object", process |-> "undefined", getInfo |-> "undefined"]]

ProcArgs == DOMAIN ProcTable
NoProcessor == CHOOSE p \in ProcArgs : ProcTable[p].isNull
ValidProcs == {p \in ProcArgs : ~ProcTable[p].isNull /\ ProcTable[p].process = "function"}

\* Options bags passed by callers: {} (the default).
EmptyOptions == [type |-> "object", source |-> "undefined", filePath |-> "undefined"]
OptionArgs == {EmptyOptions}

\* Reading a property of null or undefined throws a TypeError
ReadThrows(v) == v.type \in {"null", "undefined"}

CannotRead(v, property) ==
  [type |-> "TypeError",
   message |-> <<"Cannot read properties of ", v.type, " (reading '", property, "')">>]

-----------------------------------------------------------------------------
(* Map: the entries in insertion order *)

MapHas(m, k) == \E i \in 1..Len(m) : m[i].k = k

MapIndex(m, k) == CHOOSE i \in 1..Len(m) : m[i].k = k

\* Map.prototype.get, undefined when absent (the caller gives the default)
MapGet(m, k, absent) == IF MapHas(m, k) THEN m[MapIndex(m, k)].v ELSE absent

\* A set that appends an entry even when the key is present
MapSetAppend(m, k, v) == Append(m, [k |-> k, v |-> v])

\* Map.prototype.set: an existing key keeps its position
MapSet(m, k, v) ==
  IF MapHas(m, k)
  THEN [m EXCEPT ![MapIndex(m, k)] = [k |-> k, v |-> v]]
  ELSE Append(m, [k |-> k, v |-> v])

\* Map.prototype.delete
MapDelete(m, k) ==
  IF MapHas(m, k)
  THEN LET i == MapIndex(m, k)
       IN SubSeq(m, 1, i - 1) \o SubSeq(m, i + 1, Len(m))
  ELSE m

\* Array.from(m.keys())
MapKeys(m) == [i \in 1..Len(m) |-> m[i].k]

EmptyMap == <<>>

Range(s) == {s[i] : i \in 1..Len(s)}

\* {...base, ...over}
Merge(base, over) ==
  [f \in DOMAIN base \cup DOMAIN over |->
     IF f \in DOMAIN over THEN over[f] ELSE base[f]]

-----------------------------------------------------------------------------
(* Versions *)

\* String.prototype.charCodeAt over the strings the hash reads
CharCodes(s) ==
  CASE s = "A" -> <<65>>
    [] s = "B" -> <<66>>
    [] s = "Object" -> <<79, 98, 106, 101, 99, 116>>
    [] s = "true" -> <<116, 114, 117, 101>>
    [] s = "false" -> <<102, 97, 108, 115, 101>>
    [] s = "{\"name\":\"" -> <<123, 34, 110, 97, 109, 101, 34, 58, 34>>
    [] s = "\",\"hasProcess\":" ->
         <<34, 44, 34, 104, 97, 115, 80, 114, 111, 99, 101, 115, 115, 34, 58>>
    [] s = ",\"hasGetInfo\":" ->
         <<44, 34, 104, 97, 115, 71, 101, 116, 73, 110, 102, 111, 34, 58>>
    [] s = "}" -> <<125>>

BoolStr(b) == IF b THEN "true" ELSE "false"

\* JSON.stringify({name, description, hasProcess, hasGetInfo}); the
\* processors of ProcTable have no description, and JSON.stringify leaves an
\* undefined property out
ProcessorStr(p) ==
  LET d == ProcTable[p]
      name == IF d.name # "" THEN d.name ELSE d.ctor
  IN CharCodes("{\"name\":\"") \o CharCodes(name)
       \o CharCodes("\",\"hasProcess\":") \o CharCodes(BoolStr(d.process = "function"))
       \o CharCodes(",\"hasGetInfo\":") \o CharCodes(BoolStr(d.getInfo = "function"))
       \o CharCodes("}")

\* A 32-bit integer is the pair <<high 16 bits, low 16 bits>> of its two's
\* complement. hash = ((hash << 5) - hash) + char; hash = hash & hash
HashStep(h, c) ==
  LET lo == h[2] * 31 + c
  IN <<(h[1] * 31 + lo \div 65536) % 65536, lo % 65536>>

\* for (let i = 0; i < processorStr.length; i++)
RECURSIVE HashFrom(_, _, _)
HashFrom(h, s, i) ==
  IF i > Len(s) THEN h
  ELSE LET next == HashStep(h, s[i])
       IN IF next[1] \in 0..65535 THEN HashFrom(next, s, i + 1) ELSE next

\* Math.abs of the signed 32-bit value
Abs32(h) ==
  IF h[1] < 32768 THEN h
  ELSE <<(65535 - h[1] + (IF h[2] = 0 THEN 1 ELSE 0)) % 65536, (65536 - h[2]) % 65536>>

\* hashProcessor: the hexadecimal string is the number it writes
ProcessorHashes ==
  [p \in ValidProcs |-> Abs32(HashFrom(<<0, 0>>, ProcessorStr(p), 1))]

hashProcessor(processor) == ProcessorHashes[processor]

\* `${timestamp}-${processorHash}`
generateProcessorVersion(processor) ==
  [timestamp |-> now, hash |-> hashProcessor(processor)]

\* No version: the value of a property that is not there
NoVersion == [timestamp |-> -1, hash |-> <<0, 0>>]

-----------------------------------------------------------------------------
(* Registration. The operations are functions of the registry           *)
(* reg = [processors, processorVersions, registryStats] to the registry  *)
(* after the call, the value returned and the events emitted, so that a  *)
(* discovery pass can call them in sequence.                             *)

TopicError == <<"Topic must be a valid string">>
ProcessorError == <<"Processor must have a process method">>
NotFoundError(topic) == <<"No processor found for topic: ", ToStr(topic)>>
NotFoundUseRegister(topic) ==
  <<"No processor found for topic: ", ToStr(topic), ". Use registerProcessor instead.">>
NoError == <<>>

Registry ==
  [processors |-> processors, processorVersions |-> processorVersions,
   registryStats |-> registryStats]

\* !topic alone, without the typeof test
InvalidTopicFalsyOnly(topic) == Falsy(topic)

\* !topic || typeof topic !== 'string'
InvalidTopic(topic) == Falsy(topic) \/ topic.type # "string"

\* !processor || typeof processor.process !== 'function'
InvalidProcessor(processor) ==
  ProcTable[processor].isNull \/ ProcTable[processor].process # "function"

\* The catch block of register/update/deregister: the failure result and
\* one processor:error event
Failed(reg, topic, error) ==
  LET result == [success |-> FALSE, topic |-> topic, error |-> error, timestamp |-> now]
  IN [reg |-> reg, result |-> result,
      events |-> <<[name |-> "processor:error", payload |-> result]>>]

\* The checks of registerProcessor, in order
RegisterCheck(reg, topic, processor) ==
  IF InvalidTopic(topic) THEN TopicError
  ELSE IF InvalidProcessor(processor) THEN ProcessorError
  ELSE NoError

\* isUpdate read after the processor is stored
IsUpdateAfterStore(reg, topic) == TRUE

\* const isUpdate = !!existingProcessor
IsUpdate(reg, topic) == MapGet(reg.processors, topic, NoProcessor) # NoProcessor

\* The version record registerProcessor stores
RegisterRecord(version, options) ==
  [version |-> version, registeredAt |-> now, updatedAt |-> now, options |-> options]

\* The counters after registerProcessor
RegisterStats(stats, isUpdate) ==
  IF isUpdate
  THEN [stats EXCEPT !.totalUpdated = @ + 1, !.lastUpdated = now]
  ELSE [stats EXCEPT !.totalRegistered = @ + 1, !.lastUpdated = now]

RegisterEvent(isUpdate) ==
  IF isUpdate THEN "processor:updated" ELSE "processor:registered"

RegisterAction(isUpdate) == IF isUpdate THEN "updated" ELSE "registered"

registerProcessorOn(reg, topic, processor, options) ==
  LET error == RegisterCheck(reg, topic, processor)
  IN IF error # NoError THEN Failed(reg, topic, error)
     ELSE LET isUpdate == IsUpdate(reg, topic)
              version == generateProcessorVersion(processor)
          IN [reg |-> [processors |-> MapSet(reg.processors, topic, processor),
                       processorVersions |->
                         MapSet(reg.processorVersions, topic,
                                RegisterRecord(version, options)),
                       registryStats |-> RegisterStats(reg.registryStats, isUpdate)],
              result |-> [success |-> TRUE, topic |-> topic, version |-> version,
                          action |-> RegisterAction(isUpdate), timestamp |-> now],
              events |-> <<[name |-> RegisterEvent(isUpdate),
                            payload |-> [topic |-> topic, processor |-> processor,
                                         version |-> version, options |-> options]]>>]

\* versionInfo?.version
OptionalVersion(versionInfo) ==
  IF versionInfo = JsUndefined THEN NoVersion ELSE versionInfo.version

\* The checks of deregisterProcessor, without the lookup of the topic
DeregisterCheckNoLookup(reg, topic) ==
  IF InvalidTopic(topic) THEN TopicError ELSE NoError

\* The checks of deregisterProcessor, in order
DeregisterCheck(reg, topic) ==
  IF InvalidTopic(topic) THEN TopicError
  ELSE IF ~MapHas(reg.processors, topic) THEN NotFoundError(topic)
  ELSE NoError

\* deregisterProcessor that leaves the topic's version record in place
deregisterProcessorKeepingVersion(reg, topic, options) ==
  LET error == DeregisterCheck(reg, topic)
  IN IF error # NoError THEN Failed(reg, topic, error)
     ELSE LET processor == MapGet(reg.processors, topic, NoProcessor)
              versionInfo == MapGet(reg.processorVersions, topic, JsUndefined)
          IN [reg |-> [processors |-> MapDelete(reg.processors, topic),
                       processorVersions |-> reg.processorVersions,
                       registryStats |->
                         [reg.registryStats EXCEPT !.totalDeregistered = @ + 1,
                                                   !.lastUpdated = now]],
              result |-> [success |-> TRUE, topic |-> topic, action |-> "deregistered",
                          version |-> OptionalVersion(versionInfo), timestamp |-> now],
              events |-> <<[name |-> "processor:deregistered",
                            payload |-> [topic |-> topic, processor |-> processor,
                                         versionInfo |-> versionInfo,
                                         options |-> options]]>>]

deregisterProcessorOn(reg, topic, options) ==
  LET error == DeregisterCheck(reg, topic)
  IN IF error # NoError THEN Failed(reg, topic, error)
     ELSE LET processor == MapGet(reg.processors, topic, NoProcessor)
              versionInfo == MapGet(reg.processorVersions, topic, JsUndefined)
          IN [reg |-> [processors |-> MapDelete(reg.processors, topic),
                       processorVersions |-> MapDelete(reg.processorVersions, topic),
                       registryStats |->
                         [reg.registryStats EXCEPT !.totalDeregistered = @ + 1,
                                                   !.lastUpdated = now]],
              result |-> [success |-> TRUE, topic |-> topic, action |-> "deregistered",
                          version |-> OptionalVersion(versionInfo), timestamp |-> now],
              events |-> <<[name |-> "processor:deregistered",
                            payload |-> [topic |-> topic, processor |-> processor,
                                         versionInfo |-> versionInfo,
                                         options |-> options]]>>]

\* The checks of updateProcessor, in order
UpdateCheck(reg, topic, processor) ==
  IF InvalidTopic(topic) THEN TopicError
  ELSE IF InvalidProcessor(processor) THEN ProcessorError
  ELSE IF ~MapHas(reg.processors, topic) THEN NotFoundUseRegister(topic)
  ELSE NoError

\* {...oldVersion, version: newVersion, updatedAt, previousVersion, options}
UpdateRecord(oldVersion, newVersion, options) ==
  Merge(oldVersion, [version |-> newVersion, updatedAt |-> now,
                     previousVersion |-> oldVersion.version, options |-> options])

updateProcessorOn(reg, topic, processor, options) ==
  LET error == UpdateCheck(reg, topic, processor)
  IN IF error # NoError THEN Failed(reg, topic, error)
     ELSE LET oldProcessor == MapGet(reg.processors, topic, NoProcessor)
              oldVersion == MapGet(reg.processorVersions, topic, JsUndefined)
              newVersion == generateProcessorVersion(processor)
          IN [reg |-> [processors |-> MapSet(reg.processors, topic, processor),
                       processorVersions |->
                         MapSet(reg.processorVersions, topic,
                                UpdateRecord(oldVersion, newVersion, options)),
                       registryStats |->
                         [reg.registryStats EXCEPT !.totalUpdated = @ + 1,
                                                   !.lastUpdated = now]],
              result |-> [success |-> TRUE, topic |-> topic, version |-> newVersion,
                          previousVersion |-> oldVersion.version,
                          action |-> "updated", timestamp |-> now],
              events |-> <<[name |-> "processor:updated",
                            payload |-> [topic |-> topic, processor |-> processor,
                                         oldProcessor |-> oldProcessor,
                                         version |-> newVersion,
                                         previousVersion |-> oldVersion.version,
                                         options |-> options]]>>]

\* clear that leaves the version records in place
clearProcessorsOnly(reg, options) ==
  LET topics == MapKeys(reg.processors)
      clearedCount == Len(topics)
  IN [reg |-> [processors |-> EmptyMap,
               processorVersions |-> reg.processorVersions,
               registryStats |-> [reg.registryStats EXCEPT !.lastUpdated = now]],
      result |-> [success |-> TRUE, clearedCount |-> clearedCount, topics |-> topics,
                  action |-> "cleared", timestamp |-> now],
      events |-> <<[name |-> "registry:cleared",
                    payload |-> [clearedCount |-> clearedCount, topics |-> topics,
                                 options |-> options]]>>]

\* clear: Map.prototype.clear does not throw, so the catch block is not
\* reached
clearOn(reg, options) ==
  LET topics == MapKeys(reg.processors)
      clearedCount == Len(topics)
  IN [reg |-> [processors |-> EmptyMap,
               processorVersions |-> EmptyMap,
               registryStats |-> [reg.registryStats EXCEPT !.lastUpdated = now]],
      result |-> [success |-> TRUE, clearedCount |-> clearedCount, topics |-> topics,
                  action |-> "cleared", timestamp |-> now],
      events |-> <<[name |-> "registry:cleared",
                    payload |-> [clearedCount |-> clearedCount, topics |-> topics,
                                 options |-> options]]>>]

\* History: the topics the lifecycle events emitted so far leave registered
RECURSIVE AfterEvents(_, _)
AfterEvents(topics, events) ==
  IF events = <<>> THEN topics
  ELSE LET e == Head(events)
           next == CASE e.name \in {"processor:registered", "processor:updated"} ->
                          topics \cup {e.payload.topic}
                     [] e.name = "processor:deregistered" -> topics \ {e.payload.topic}
                     [] e.name = "registry:cleared" -> {}
                     [] OTHER -> topics
       IN AfterEvents(next, Tail(events))

\* Fewer than MaxOps successful register/update/deregister calls so far
OpBudget ==
  registryStats.totalRegistered + registryStats.totalUpdated
    + registryStats.totalDeregistered < MaxOps

\* A call of a registry operation: the registry it leaves, and the record
\* of the call
Call(op, args, out) ==
  /\ out.reg # Registry => OpBudget \/ op = "clear"
  /\ processors' = out.reg.processors
  /\ processorVersions' = out.reg.processorVersions
  /\ registryStats' = out.reg.registryStats
  /\ registeredTopics' = AfterEvents(registeredTopics, out.events)
  /\ last' = Merge(args, [op |-> op, result |-> out.result, events |-> out.events])
  /\ UNCHANGED <<processorFiles, refreshTimer, timers, config, files, now, pending,
                 procCall, accessor>>

registerProcessor(topic, processor, options) ==
  Call("registerProcessor",
       [topic |-> topic, processor |-> processor, options |-> options],
       registerProcessorOn(Registry, topic, processor, options))

deregisterProcessor(topic, options) ==
  Call("deregisterProcessor", [topic |-> topic, options |-> options],
       deregisterProcessorOn(Registry, topic, options))

updateProcessor(topic, processor, options) ==
  Call("updateProcessor",
       [topic |-> topic, processor |-> processor, options |-> options],
       updateProcessorOn(Registry, topic, processor, options))

clear(options) ==
  Call("clear", [options |-> options], clearOn(Registry, options))

-----------------------------------------------------------------------------
(* Read accessors *)

\* getProcessor: this.processors.get(topic) || null
getProcessor(topic) == MapGet(processors, topic, NoProcessor)

\* hasProcessor
hasProcessor(topic) == MapHas(processors, topic)

\* getAvailableTopics
getAvailableTopics == MapKeys(processors)

\* processor.name || processor.constructor.name
ProcessorName(processor) ==
  IF ProcTable[processor].name # "" THEN ProcTable[processor].name
  ELSE ProcTable[processor].ctor

getProcessorInfo(topic) ==
  IF ~hasProcessor(topic) THEN JsNull
  ELSE LET processor == MapGet(processors, topic, NoProcessor)
           versionInfo == MapGet(processorVersions, topic, JsUndefined)
       IN [topic |-> topic,
           processor |-> [name |-> ProcessorName(processor),
                          description |-> "No description",
                          hasProcessMethod |-> ProcTable[processor].process = "function",
                          hasGetInfoMethod |-> ProcTable[processor].getInfo = "function"],
           version |-> versionInfo.version,
           registeredAt |-> versionInfo.registeredAt,
           updatedAt |-> versionInfo.updatedAt,
           options |-> versionInfo.options]

getAllProcessorInfo ==
  [i \in 1..Len(processors) |->
     [k |-> processors[i].k, v |-> getProcessorInfo(processors[i].k)]]

getRegistryStats ==
  Merge(registryStats, [currentProcessors |-> Len(processors),
                        currentTopics |-> getAvailableTopics])

\* !!this.refreshTimer
TimerArmed == refreshTimer # 0

getAutoRefreshStatus ==
  [enabled |-> config.autoRefresh, interval |-> config.refreshInterval,
   isRunning |-> TimerArmed, lastRefresh |-> registryStats.lastUpdated,
   refreshCount |-> registryStats.autoRefreshCount]

\* A call of a read accessor: the value it returns, and no assignment
Read(op, topic, result) ==
  /\ last' = [op |-> op, topic |-> topic, result |-> result, events |-> <<>>]
  /\ UNCHANGED <<registryVars, files, now, pending, registeredTopics, procCall, accessor>>

\* getRegistryStats that stamps lastUpdated
getRegistryStatsStamping ==
  /\ last' = [op |-> "getRegistryStats", topic |-> JsUndefined,
              result |-> getRegistryStats, events |-> <<>>]
  /\ registryStats' = [registryStats EXCEPT !.lastUpdated = now]
  /\ UNCHANGED <<processors, processorVersions, processorFiles, refreshTimer, timers,
                 config, files, now, pending, registeredTopics, procCall, accessor>>

getProcessorCall(topic) == Read("getProcessor", topic, getProcessor(topic))
hasProcessorCall(topic) == Read("hasProcessor", topic, hasProcessor(topic))
getAvailableTopicsCall == Read("getAvailableTopics", JsUndefined, getAvailableTopics)
getProcessorInfoCall(topic) == Read("getProcessorInfo", topic, getProcessorInfo(topic))
getAllProcessorInfoCall == Read("getAllProcessorInfo", JsUndefined, getAllProcessorInfo)
getRegistryStatsCall == Read("getRegistryStats", JsUndefined, getRegistryStats)
getAutoRefreshStatusCall == Read("getAutoRefreshStatus", JsUndefined, getAutoRefreshStatus)

-----------------------------------------------------------------------------
(* The clock *)

Tick ==
  /\ now < MaxClock
  /\ now' = now + 1
  /\ last' = [op |-> "tick", events |-> <<>>]
  /\ UNCHANGED <<registryVars, files, pending, registeredTopics, procCall, accessor>>

-----------------------------------------------------------------------------
(* Auto-refresh timer *)

\* startAutoRefresh that arms a new interval without clearing the one held
startAutoRefreshKeeping(handle, armed) ==
  LET h == CHOOSE x \in 1..(Cardinality(armed) + 1) : x \notin armed
  IN [refreshTimer |-> h, timers |-> armed \cup {h}]

\* startAutoRefresh as the constructor and callers run it, given the handle
\* held and the timers armed
startAutoRefreshOn(handle, armed) ==
  LET cleared == IF handle # 0 THEN armed \ {handle} ELSE armed
      h == CHOOSE x \in 1..(Cardinality(cleared) + 1) : x \notin cleared
  IN [refreshTimer |-> h, timers |-> cleared \cup {h}]

-----------------------------------------------------------------------------
(* The registry after construction *)

NoTimestamp == -1

\* options.refreshInterval || 5000
DefaultRefreshInterval == 5000

\* options.fileExtensions || ['.js']
DefaultFileExtensions == <<".js">>

\* new KafkaAccessor(): no consumer yet, and no call in flight.  listing
\* holds the discovery passes waiting for admin.listTopics()
KafkaAccessor ==
  [consumer |-> "null", subscribed |-> {}, running |-> FALSE, listing |-> <<>>,
   call |-> [pc |-> "idle"]]

\* new ProcessorRegistry({autoRefresh, fileExtensions})
Constructor(autoRefresh, fileExtensions) ==
  /\ processors = EmptyMap
  /\ processorVersions = EmptyMap
  /\ processorFiles = EmptyMap
  /\ registryStats = [totalRegistered |-> 0, totalDeregistered |-> 0,
                      totalUpdated |-> 0, lastUpdated |-> NoTimestamp,
                      autoRefreshCount |-> 0]
  /\ config = [autoRefresh |-> autoRefresh,
               refreshInterval |-> DefaultRefreshInterval,
               fileExtensions |-> fileExtensions]
  /\ LET started == startAutoRefreshOn(0, {})
     IN /\ refreshTimer = IF autoRefresh THEN started.refreshTimer ELSE 0
        /\ timers = IF autoRefresh THEN started.timers ELSE {}
  /\ files = <<>>
  /\ now = 0
  /\ pending = <<>>
  /\ last = [op |-> "constructor", events |-> <<>>]
  /\ registeredTopics = {}
  /\ procCall = [op |-> "none"]
  /\ accessor = KafkaAccessor

Init == \E autoRefresh \in BOOLEAN : Constructor(autoRefresh, DefaultFileExtensions)

\* Registry management: the mutating operations, the read accessors and
\* the clock
Next ==
  \/ \E t \in TopicArgs, p \in ProcArgs, o \in OptionArgs : registerProcessor(t, p, o)
  \/ \E t \in TopicArgs, o \in OptionArgs : deregisterProcessor(t, o)
  \/ \E t \in TopicArgs, p \in ProcArgs, o \in OptionArgs : updateProcessor(t, p, o)
  \/ \E o \in OptionArgs : clear(o)
  \/ \E t \in TopicArgs : getProcessorCall(t)
  \/ \E t \in TopicArgs : hasProcessorCall(t)
  \/ getAvailableTopicsCall
  \/ \E t \in TopicArgs : getProcessorInfoCall(t)
  \/ getAllProcessorInfoCall
  \/ getRegistryStatsCall
  \/ getAutoRefreshStatusCall
  \/ Tick

Spec == Init /\ [][Next]_vars

-----------------------------------------------------------------------------
(* Discovery *)

\* The candidate files of the processors directory, in the order readdirSync
\* lists them, and path.basename(filePath, path.extname(filePath))
FilePaths == {"a.js", "b.js"}
ScanOrder == <<"a.cjs", "a.js", "b.js">>
BaseName(filePath) == IF filePath \in {"a.cjs", "a.js"} THEN Str("a") ELSE Str("b")

\* path.extname(file)
ExtName(filePath) == IF filePath = "a.cjs" THEN ".cjs" ELSE ".js"

\* What a file exports: a processor class, or nothing loadable
FileExports == {1, NoProcessor}

\* The options discovery registers with
DiscoveryOptions(filePath) ==
  [type |-> "object", source |-> "auto-discovery", filePath |-> filePath]

\* Options bags callers pass: {} and null
DiscoveryOptionArgs == {EmptyOptions, JsNull}

\* options.kafkaAccessor: none, one whose listTopics rejects with an Error
\* ("fails"), one whose listTopics rejects with no reason ("rejects"), one
\* whose listTopics resolves to a list
KafkaLists == {<<Str("a")>>}
KafkaArgs ==
  [kind : {"none", "fails", "rejects"}, topics : {<<>>}]
    \cup [kind : {"lists"}, topics : KafkaLists]

\* availableTopics after the listTopics block: [] without an accessor, null
\* when listTopics rejects; the catch block reads error.message, which throws
\* when the rejection carries no reason
ListTopics(kafka) ==
  CASE kafka.kind = "none" -> [isNull |-> FALSE, topics |-> <<>>, thrown |-> FALSE]
    [] kafka.kind = "fails" -> [isNull |-> TRUE, topics |-> <<>>, thrown |-> FALSE]
    [] kafka.kind = "rejects" -> [isNull |-> TRUE, topics |-> <<>>, thrown |-> TRUE]
    [] OTHER -> [isNull |-> FALSE, topics |-> kafka.topics, thrown |-> FALSE]

\* fs.existsSync
ExistsSync(filePath) == filePath \in DOMAIN files

\* this.fileExtensions.includes(ext), for a file of the directory
AcceptedFile(filePath) ==
  ExistsSync(filePath) /\ ExtName(filePath) \in Range(config.fileExtensions)

\* scanProcessorFiles
scanProcessorFiles == SelectSeq(ScanOrder, AcceptedFile)

\* loadProcessorFromFile: an instance, or null
loadProcessorFromFile(filePath) == files[filePath].exports

\* The unchanged-file check that also skips a file whose statSync throws
UnchangedFileFailClosed(fileMap, filePath, forceRefresh) ==
  LET existingFile == MapGet(fileMap, BaseName(filePath), JsUndefined)
  IN /\ existingFile # JsUndefined
     /\ ~forceRefresh
     /\ \/ ~files[filePath].stat
        \/ files[filePath].mtime = existingFile.mtime

\* existingFile && !forceRefresh && the modification times are equal; when
\* statSync throws, the catch block logs a warning and the file is not
\* skipped
UnchangedFile(fileMap, filePath, forceRefresh) ==
  LET existingFile == MapGet(fileMap, BaseName(filePath), JsUndefined)
  IN /\ existingFile # JsUndefined
     /\ ~forceRefresh
     /\ files[filePath].stat
     /\ files[filePath].mtime = existingFile.mtime

\* The topic filter that lets every file name through
TopicFilteredNever(fileName, availableTopics) == FALSE

\* availableTopics !== null && !availableTopics.includes(fileName)
TopicFiltered(fileName, availableTopics) ==
  ~availableTopics.isNull /\ fileName \notin Range(availableTopics.topics)

\* One iteration of the loop over the candidate files
DiscoverFile(acc, filePath, forceRefresh, availableTopics) ==
  LET fileName == BaseName(filePath)
      processor == loadProcessorFromFile(filePath)
  IN IF \/ UnchangedFile(acc.processorFiles, filePath, forceRefresh)
        \/ TopicFiltered(fileName, availableTopics)
     THEN acc
     ELSE IF processor = NoProcessor THEN [acc EXCEPT !.loaded = Append(@, filePath)]
     ELSE LET out == registerProcessorOn(acc.reg, fileName, processor,
                                         DiscoveryOptions(filePath))
          IN IF out.result.success
             THEN [reg |-> out.reg,
                   processorFiles |->
                     IF files[filePath].stat
                     THEN MapSet(acc.processorFiles, fileName,
                                 [filePath |-> filePath,
                                  mtime |-> files[filePath].mtime])
                     ELSE acc.processorFiles,
                   events |-> acc.events \o out.events,
                   discovered |-> acc.discovered + 1,
                   loaded |-> Append(acc.loaded, filePath),
                   thrown |-> FALSE]
             ELSE [acc EXCEPT !.reg = out.reg, !.events = @ \o out.events,
                              !.loaded = Append(@, filePath)]

RECURSIVE DiscoverFiles(_, _, _, _, _)
DiscoverFiles(acc, currentFiles, i, forceRefresh, availableTopics) ==
  IF i > Len(currentFiles) THEN acc
  ELSE CHOOSE done \in
         { DiscoverFiles(next, currentFiles, i + 1, forceRefresh, availableTopics) :
             next \in {DiscoverFile(acc, currentFiles[i], forceRefresh, availableTopics)} } :
         TRUE

\* The sweep over the topics registered when it starts; reading
\* processorInfo.options.source throws when options is null
RECURSIVE Sweep(_, _, _)
Sweep(acc, existingTopics, i) ==
  IF i > Len(existingTopics) THEN acc
  ELSE LET topic == existingTopics[i]
           processorInfo == MapGet(acc.reg.processorVersions, topic, JsUndefined)
       IN IF processorInfo = JsUndefined THEN Sweep(acc, existingTopics, i + 1)
          ELSE IF processorInfo.options.type = "null" THEN [acc EXCEPT !.thrown = TRUE]
          ELSE IF /\ processorInfo.options.source = "auto-discovery"
                  /\ ~ExistsSync(processorInfo.options.filePath)
               THEN CHOOSE done \in
                      { Sweep([acc EXCEPT !.reg = out.reg, !.events = @ \o out.events],
                              existingTopics, i + 1) :
                          out \in {deregisterProcessorOn(acc.reg, topic, EmptyOptions)} } :
                      TRUE
               ELSE Sweep(acc, existingTopics, i + 1)

\* autoDiscoverProcessors from the point where the topic list is known: the
\* loop, the sweep, the counter and the summary
autoDiscoverProcessorsOn(reg, fileMap, forceRefresh, availableTopics) ==
  LET start == [reg |-> reg, processorFiles |-> fileMap, events |-> <<>>,
                discovered |-> 0, loaded |-> <<>>, thrown |-> FALSE]
      Loaded == {DiscoverFiles(start, scanProcessorFiles, 1, forceRefresh,
                               availableTopics)}
      swept == CHOOSE done \in
                 { Sweep(loaded, MapKeys(loaded.reg.processors), 1) : loaded \in Loaded } :
                 TRUE
  IN IF availableTopics.thrown
     THEN [reg |-> reg, processorFiles |-> fileMap, events |-> <<>>, loaded |-> <<>>,
           settled |-> "rejected", result |-> CannotRead(JsUndefined, "message")]
     ELSE IF swept.thrown
     THEN [reg |-> swept.reg, processorFiles |-> swept.processorFiles,
           events |-> swept.events, loaded |-> swept.loaded, settled |-> "rejected",
           result |-> CannotRead(JsNull, "source")]
     ELSE [reg |-> [swept.reg EXCEPT !.registryStats.autoRefreshCount = @ + 1],
           processorFiles |-> swept.processorFiles,
           events |-> swept.events, loaded |-> swept.loaded, settled |-> "resolved",
           result |-> [success |-> TRUE, discovered |-> swept.discovered, errors |-> 0,
                       totalProcessors |-> Len(swept.reg.processors),
                       availableTopics |-> availableTopics.topics,
                       timestamp |-> now]]

\* A pass from the point where listTopics has settled to its return
DiscoveryPass(forceRefresh, kafka) ==
  \E out \in {autoDiscoverProcessorsOn(Registry, processorFiles, forceRefresh,
                                        ListTopics(kafka))} :
     /\ processors' = out.reg.processors
     /\ processorVersions' = out.reg.processorVersions
     /\ registryStats' = out.reg.registryStats
     /\ processorFiles' = out.processorFiles
     /\ registeredTopics' = AfterEvents(registeredTopics, out.events)
     /\ last' = [op |-> "autoDiscoverProcessors", forceRefresh |-> forceRefresh,
                 kafka |-> kafka, settled |-> out.settled, result |-> out.result,
                 events |-> out.events, loaded |-> out.loaded]
     /\ UNCHANGED <<refreshTimer, timers, config, files, now, pending, procCall>>

\* autoDiscoverProcessors({forceRefresh, kafkaAccessor}) with nothing else
\* running while it waits for the topic list
autoDiscoverProcessors(forceRefresh, kafka) ==
  /\ registryStats.autoRefreshCount < MaxPasses
  /\ DiscoveryPass(forceRefresh, kafka)
  /\ last'.events # <<>> => OpBudget
  /\ UNCHANGED accessor

\* autoDiscoverProcessors up to "await kafkaAccessor.admin.listTopics()"
autoDiscoverProcessorsBegin(forceRefresh, kafka) ==
  /\ kafka.kind # "none"
  /\ Len(accessor.listing) < MaxListing
  /\ registryStats.autoRefreshCount + Len(accessor.listing) < MaxPasses
  /\ accessor' = [accessor EXCEPT
                    !.listing = Append(@, [forceRefresh |-> forceRefresh, kafka |-> kafka])]
  /\ last' = [op |-> "autoDiscoverProcessorsBegin", forceRefresh |-> forceRefresh,
              kafka |-> kafka, settled |-> "pending", events |-> <<>>]
  /\ UNCHANGED <<registryVars, files, now, pending, registeredTopics, procCall>>

\* autoDiscoverProcessors from the await on: listTopics settles and the
\* pass runs to its return
autoDiscoverProcessorsResume(i) ==
  /\ i \in 1..Len(accessor.listing)
  /\ DiscoveryPass(accessor.listing[i].forceRefresh, accessor.listing[i].kafka)
  /\ last'.events # <<>> => OpBudget
  /\ accessor' = [accessor EXCEPT
                    !.listing = SubSeq(@, 1, i - 1) \o SubSeq(@, i + 1, Len(@))]

\* The directory changes under the registry: a file is written (its
\* modification time is the clock reading) or removed
writeFile(filePath, exports) ==
  /\ files' = [f \in DOMAIN files \cup {filePath} |->
                 IF f = filePath
                 THEN [mtime |-> now, exports |-> exports, stat |-> TRUE]
                 ELSE files[f]]
  /\ files' # files
  /\ last' = [op |-> "writeFile", filePath |-> filePath, events |-> <<>>]
  /\ UNCHANGED <<registryVars, now, pending, registeredTopics, procCall, accessor>>

unlinkFile(filePath) ==
  /\ ExistsSync(filePath)
  /\ files' = [f \in DOMAIN files \ {filePath} |-> files[f]]
  /\ last' = [op |-> "unlinkFile", filePath |-> filePath, events |-> <<>>]
  /\ UNCHANGED <<registryVars, now, pending, registeredTopics, procCall, accessor>>

\* fs.statSync starts to throw for the file ('Permission denied'); the file
\* stays in the directory listing and can still be loaded
statSyncThrows(filePath) ==
  /\ ExistsSync(filePath)
  /\ files[filePath].stat
  /\ files' = [files EXCEPT ![filePath].stat = FALSE]
  /\ last' = [op |-> "statSyncThrows", filePath |-> filePath, events |-> <<>>]
  /\ UNCHANGED <<registryVars, now, pending, registeredTopics, procCall, accessor>>

\* Discovery passes over a changing directory, between direct calls of the
\* mutating operations
NextDiscovery ==
  \/ \E t \in ValidTopics, o \in DiscoveryOptionArgs : registerProcessor(t, 3, o)
  \/ \E t \in ValidTopics : deregisterProcessor(t, EmptyOptions)
  \/ \E t \in ValidTopics : updateProcessor(t, 3, EmptyOptions)
  \/ clear(EmptyOptions)
  \/ \E forceRefresh \in BOOLEAN, kafka \in KafkaArgs :
       autoDiscoverProcessors(forceRefresh, kafka)
  \/ \E f \in FilePaths, e \in FileExports : writeFile(f, e)
  \/ \E f \in FilePaths : unlinkFile(f)
  \/ Tick

SpecDiscovery == Init /\ [][NextDiscovery]_vars

\* A registry constructed with two accepted extensions, over a directory
\* where two files share a base name
SiblingExtensions == <<".js", ".cjs">>
SiblingPaths == {"a.cjs", "a.js"}

InitExtensions == \E autoRefresh \in BOOLEAN : Constructor(autoRefresh, SiblingExtensions)

NextExtensions ==
  \/ \E forceRefresh \in BOOLEAN, kafka \in KafkaArgs :
       /\ registryStats.autoRefreshCount < MaxPasses
       /\ DiscoveryPass(forceRefresh, kafka)
       /\ UNCHANGED accessor
  \/ \E f \in SiblingPaths, e \in FileExports : writeFile(f, e)
  \/ \E f \in SiblingPaths : unlinkFile(f)
  \/ \E f \in SiblingPaths : statSyncThrows(f)
  \/ clear(EmptyOptions)
  \/ Tick

SpecExtensions == InitExtensions /\ [][NextExtensions]_vars

\* The event registers a processor loaded from the file
RegisteredFrom(event, filePath) ==
  /\ event.name \in {"processor:registered", "processor:updated"}
  /\ event.payload.options.filePath = filePath

\* C14: in a pass without forceRefresh, a candidate file whose file record
\* holds the file's current modification time is neither loaded nor passed to
\* registerProcessor, and its topic's processor and version record are the
\* same after the pass; with forceRefresh every candidate that the topic
\* filter lets through is reloaded
C14_UnchangedFilesSkipped ==
  [][ last'.op = "autoDiscoverProcessors" =>
        \A f \in Range(scanProcessorFiles) :
          LET topic == BaseName(f)
              record == MapGet(processorFiles, topic, JsUndefined)
          IN /\ ( /\ ~last'.forceRefresh
                  /\ record # JsUndefined
                  /\ record.mtime = files[f].mtime )
                  => /\ f \notin Range(last'.loaded)
                     /\ \A i \in 1..Len(last'.events) :
                          ~RegisteredFrom(last'.events[i], f)
                     /\ MapGet(processors', topic, NoProcessor)
                          = MapGet(processors, topic, NoProcessor)
                     /\ MapGet(processorVersions', topic, JsUndefined)
                          = MapGet(processorVersions, topic, JsUndefined)
             /\ ( /\ last'.forceRefresh
                  /\ ~ListTopics(last'.kafka).thrown
                  /\ ~TopicFiltered(topic, ListTopics(last'.kafka)) )
                  => f \in Range(last'.loaded) ]_vars

\* The version record carries discovery provenance for a file that is gone
StaleEntry(versionInfo) ==
  /\ versionInfo.options.type # "null"
  /\ versionInfo.options.source = "auto-discovery"
  /\ ~ExistsSync(versionInfo.options.filePath)

\* C15: after every discovery pass no registered entry with provenance
\* 'auto-discovery' points at a file that does not exist, and the pass
\* deregisters only entries with that provenance whose file is gone
C15_SweepRemovesDeleted ==
  [][ last'.op = "autoDiscoverProcessors" =>
        /\ \A i \in 1..Len(processorVersions') : ~StaleEntry(processorVersions'[i].v)
        /\ \A i \in 1..Len(last'.events) :
             last'.events[i].name = "processor:deregistered"
               => StaleEntry(last'.events[i].payload.versionInfo) ]_vars

\* C16: a pass registers only topics that are the base name of a scanned
\* candidate file, registers no topic outside the topic list when the list
\* was obtained, and counts no skipped candidate as an error
C16_RegistersOnlyListedFiles ==
  [][ last'.op = "autoDiscoverProcessors" =>
        /\ \A i \in 1..Len(last'.events) :
             last'.events[i].name \in {"processor:registered", "processor:updated"}
               => /\ \E f \in Range(scanProcessorFiles) :
                       /\ BaseName(f) = last'.events[i].payload.topic
                       /\ RegisteredFrom(last'.events[i], f)
                  /\ last'.kafka.kind = "lists"
                       => last'.events[i].payload.topic \in Range(last'.kafka.topics)
        /\ last'.settled = "resolved" => last'.result.errors = 0 ]_vars

\* A pass with a topic list has registered the listed file and left out a
\* loadable, new file whose name is not in the list
C16_Witness ==
  /\ last.op = "autoDiscoverProcessors"
  /\ last.kafka.kind = "lists"
  /\ last.settled = "resolved"
  /\ last.result.discovered = 1
  /\ ExistsSync("b.js")
  /\ loadProcessorFromFile("b.js") # NoProcessor
  /\ ~MapHas(processorFiles, Str("b"))
  /\ ~hasProcessor(Str("b"))
  /\ hasProcessor(Str("a"))

\* The candidate file loads to a processor
Loadable(filePath) == loadProcessorFromFile(filePath) # NoProcessor

\* C17: when the topic lister fails, the pass does not abort: every loadable
\* candidate file is registered under its base name and the pass returns
\* success:true with availableTopics []
C17_ListerFailureDegrades ==
  [][ ( /\ last'.op = "autoDiscoverProcessors"
        /\ last'.kafka.kind \in {"fails", "rejects"} )
        => /\ last'.settled = "resolved"
           /\ last'.result.success
           /\ last'.result.availableTopics = <<>>
           /\ \A f \in Range(scanProcessorFiles) :
                Loadable(f) => MapHas(processors', BaseName(f)) ]_vars

\* C18: without an external topic source the existence filter does not
\* apply: every candidate that loads and is not skipped as unchanged is
\* registered under its base name
C18_NoSourceNoFilter ==
  [][ ( /\ last'.op = "autoDiscoverProcessors"
        /\ last'.kafka.kind = "none" )
        => \A f \in Range(scanProcessorFiles) :
             (Loadable(f) /\ ~UnchangedFile(processorFiles, f, last'.forceRefresh))
               => /\ \E i \in 1..Len(last'.events) : RegisteredFrom(last'.events[i], f)
                  /\ MapHas(processors', BaseName(f)) ]_vars

\* C19: a candidate that does not load does not abort the pass: every other
\* eligible candidate of the pass is registered and the pass returns
\* success:true
C19_BadFileDoesNotAbort ==
  [][ ( /\ last'.op = "autoDiscoverProcessors"
        /\ \E f \in Range(last'.loaded) : ~Loadable(f) )
        => /\ last'.settled = "resolved"
           /\ last'.result.success
           /\ \A g \in Range(scanProcessorFiles) :
                ( /\ Loadable(g)
                  /\ ~UnchangedFile(processorFiles, g, last'.forceRefresh)
                  /\ ~TopicFiltered(BaseName(g), ListTopics(last'.kafka)) )
                  => \E i \in 1..Len(last'.events) :
                       RegisteredFrom(last'.events[i], g) ]_vars

\* C20: autoDiscoverProcessors never throws or rejects: in every registry
\* state it resolves to a summary with success:true
C20_DiscoveryNeverRejects ==
  last.op = "autoDiscoverProcessors"
    => last.settled = "resolved" /\ last.result.success

\* C4: after any sequence of registerProcessor, updateProcessor,
\* deregisterProcessor, clear and discovery passes, getAvailableTopics()
\* holds each registered topic exactly once and nothing else: no key twice,
\* as many entries as registered topics, and hasProcessor(t) exactly for
\* its members
C4_AvailableTopics ==
  LET topics == getAvailableTopics
  IN /\ \A i, j \in 1..Len(topics) : topics[i] = topics[j] => i = j
     /\ Range(topics) = registeredTopics
     /\ Len(topics) = Cardinality(registeredTopics)
     /\ \A t \in TopicArgs : hasProcessor(t) <=> t \in Range(topics)

\* A pass has registered one file's topic and swept another's
C4_Witness ==
  /\ last.op = "autoDiscoverProcessors"
  /\ \E i, j \in 1..Len(last.events) :
       /\ last.events[i].name = "processor:registered"
       /\ last.events[j].name = "processor:deregistered"
  /\ Len(getAvailableTopics) = 1

-----------------------------------------------------------------------------
(* Dispatch *)

\* What a process or processMessage method may throw, or reject its promise
\* with: an Error with a message, an Error without one, and no reason at all
\* (reject())
ThrownValues ==
  { [type |-> "Error", message |-> "Processing failed"],
    [type |-> "Error", message |-> ""],
    [type |-> "undefined", message |-> ""] }

\* What processor.process may resolve to: an object, or nothing
ResolvedValues ==
  { [type |-> "object", fields |-> [status |-> "success"]],
    [type |-> "object", fields |-> [status |-> "success", message |-> "ok",
                                    topic |-> Str("other"), processor |-> "Fake",
                                    timestamp |-> NoTimestamp]],
    [type |-> "undefined", fields |-> <<>>] }

Behaviours ==
  [kind : {"throws", "rejects"}, value : ThrownValues]
    \cup [kind : {"resolves"}, value : ResolvedValues]

\* processor.constructor.name
TypeName(processor) == ProcTable[processor].ctor

\* The return for a topic without a processor, with a processor field
DispatchMissWithProcessor(topic) ==
  [status |-> "error", message |-> NotFoundError(topic), topic |-> topic,
   processor |-> JsNull, timestamp |-> now]

\* The return for a topic without a processor
DispatchMiss(topic) ==
  [status |-> "error", message |-> NotFoundError(topic), topic |-> topic, timestamp |-> now]

\* The return after the await with the spread last: {topic, processor,
\* timestamp, ...result}
DispatchReturnSpreadLast(topic, processor, value) ==
  [settled |-> "resolved",
   result |-> Merge([topic |-> topic, processor |-> TypeName(processor),
                     timestamp |-> now], value.fields)]

\* The return after the await: {...result, topic, processor, timestamp}
DispatchReturn(topic, processor, value) ==
  [settled |-> "resolved",
   result |-> Merge(value.fields, [topic |-> topic, processor |-> TypeName(processor),
                                   timestamp |-> now])]

\* The catch block: it reads error.message, first for the log line; a throw
\* from inside the catch block rejects the promise processMessage returned
DispatchCatch(topic, processor, error) ==
  IF ReadThrows(error)
  THEN [settled |-> "rejected", result |-> CannotRead(error, "message")]
  ELSE [settled |-> "resolved",
        result |-> [status |-> "error", message |-> error.message, topic |-> topic,
                    processor |-> TypeName(processor), timestamp |-> now]]

\* processMessage up to its await: the lookup, the miss, the synchronous
\* call of processor.process, which throws or returns a promise
processMessage(topic, throws, error) ==
  /\ UNCHANGED <<registryVars, files, now, registeredTopics, procCall, accessor>>
  /\ LET processor == getProcessor(topic)
     IN IF processor = NoProcessor
        THEN /\ last' = [op |-> "processMessage", topic |-> topic,
                         settled |-> "resolved", result |-> DispatchMiss(topic),
                         invoked |-> <<>>, events |-> <<>>]
             /\ UNCHANGED pending
        ELSE IF throws
        THEN /\ last' = Merge(DispatchCatch(topic, processor, error),
                              [op |-> "processMessage", topic |-> topic,
                               behaviour |-> [kind |-> "throws", value |-> error],
                               invoked |-> <<processor>>, events |-> <<>>])
             /\ UNCHANGED pending
        ELSE /\ Len(pending) < MaxPending
             /\ pending' = Append(pending, [topic |-> topic, processor |-> processor])
             /\ last' = [op |-> "processMessage", topic |-> topic,
                         settled |-> "pending", invoked |-> <<processor>>,
                         events |-> <<>>]

\* processMessage that resumes only when no earlier dispatch and no
\* discovery pass is waiting
processMessageSettleInTurn(i, behaviour) ==
  /\ i = 1
  /\ i \in 1..Len(pending)
  /\ accessor.listing = <<>>
  /\ behaviour.kind \in {"resolves", "rejects"}
  /\ UNCHANGED <<registryVars, files, now, registeredTopics, procCall, accessor>>
  /\ pending' = SubSeq(pending, 1, i - 1) \o SubSeq(pending, i + 1, Len(pending))
  /\ LET call == pending[i]
         outcome == IF behaviour.kind = "resolves"
                    THEN DispatchReturn(call.topic, call.processor, behaviour.value)
                    ELSE DispatchCatch(call.topic, call.processor, behaviour.value)
     IN last' = Merge(outcome,
                      [op |-> "processMessageSettle", topic |-> call.topic,
                       behaviour |-> behaviour, invoked |-> <<>>, events |-> <<>>])

\* processMessage from its await on: the promise of processor.process
\* settles, and the call returns with the processor it looked up
processMessageSettle(i, behaviour) ==
  /\ i \in 1..Len(pending)
  /\ behaviour.kind \in {"resolves", "rejects"}
  /\ UNCHANGED <<registryVars, files, now, registeredTopics, procCall, accessor>>
  /\ pending' = SubSeq(pending, 1, i - 1) \o SubSeq(pending, i + 1, Len(pending))
  /\ LET call == pending[i]
         outcome == IF behaviour.kind = "resolves"
                    THEN DispatchReturn(call.topic, call.processor, behaviour.value)
                    ELSE DispatchCatch(call.topic, call.processor, behaviour.value)
     IN last' = Merge(outcome,
                      [op |-> "processMessageSettle", topic |-> call.topic,
                       behaviour |-> behaviour, invoked |-> <<>>, events |-> <<>>])

\* Dispatch: topics registered and removed, messages dispatched, the
\* processors' promises settling
NextDispatch ==
  \/ \E t \in ValidTopics, p \in ValidProcs, o \in OptionArgs : registerProcessor(t, p, o)
  \/ \E t \in ValidTopics, o \in OptionArgs : deregisterProcessor(t, o)
  \/ \E o \in OptionArgs : clear(o)
  \/ \E t \in TopicArgs, e \in ThrownValues : processMessage(t, TRUE, e)
  \/ \E t \in TopicArgs : processMessage(t, FALSE, JsUndefined)
  \/ \E i \in 1..MaxPending, b \in Behaviours : processMessageSettle(i, b)
  \/ \E kafka \in KafkaArgs : autoDiscoverProcessorsBegin(FALSE, kafka)
  \/ \E i \in 1..MaxListing : autoDiscoverProcessorsResume(i)
  \/ Tick

SpecDispatch == Init /\ [][NextDispatch]_vars

-----------------------------------------------------------------------------
(* Claims about dispatch, checked under SpecDispatch *)

\* C1: processMessage never rejects: whatever the registry holds and however
\* process behaves (returns, throws, returns a rejected promise) the call
\* resolves to a result object, and when process failed the result has
\* status 'error', the exception's message and the dispatch topic
C1_DispatchNeverRejects ==
  (last.op \in {"processMessage", "processMessageSettle"} /\ last.settled # "pending")
    => /\ last.settled = "resolved"
       /\ ("behaviour" \in DOMAIN last /\ last.behaviour.kind \in {"throws", "rejects"})
            => /\ last.result.status = "error"
               /\ last.result.message = last.behaviour.value.message
               /\ last.result.topic = last.topic

\* C2: for a topic with no registered processor processMessage returns
\* {status: 'error', message: 'No processor found for topic: <topic>', topic,
\* timestamp} without a processor field, calls no processor and leaves the
\* map, the version records and the counters as they were
C2_DispatchMiss ==
  [][(/\ last'.op = "processMessage"
      /\ ~\E i \in 1..Len(processors) : processors[i].k = last'.topic)
     => /\ last'.settled = "resolved"
        /\ last'.result = [status |-> "error",
                           message |-> <<"No processor found for topic: ", last'.topic.val>>,
                           topic |-> last'.topic, timestamp |-> now]
        /\ "processor" \notin DOMAIN last'.result
        /\ last'.invoked = <<>>
        /\ pending' = pending
        /\ UNCHANGED <<processors, processorVersions, registryStats>>]_vars

\* C2 witness: a message for a topic without a processor, dispatched while
\* another topic has one
C2_Witness ==
  /\ last.op = "processMessage"
  /\ last.topic \in ValidTopics
  /\ ~hasProcessor(last.topic)
  /\ last.result.status = "error"
  /\ Len(processors) > 0

-----------------------------------------------------------------------------
(* KafkaTopicProcessor *)

\* The value of a property that is not there
Undefined == "undefined"

\* object.property: undefined when the object has no such property
Field(fields, property) ==
  IF property \in DOMAIN fields THEN fields[property] ELSE Undefined

\* v || fallback, for a string or undefined
OrElse(v, fallback) == IF v \in {Undefined, ""} THEN fallback ELSE v

\* Messages and metadata: a plain object, and an object that refers to itself
Payloads == {"plain", "cyclic"}

\* safeStringify: JSON.stringify throws on a cycle, and the catch answers
\* with the placeholder
safeStringify(obj) ==
  IF obj = "cyclic" THEN "[Circular or non-serializable object]" ELSE "{...}"

\* createSuccessResult: {status, message: message || default, ...additionalData}
createSuccessResult(message, additionalData) ==
  Merge([status |-> "success",
         message |-> OrElse(message, "Message processed successfully")],
        additionalData)

\* createErrorResult: {status, message: error || default, ...additionalData}
createErrorResult(error, additionalData) ==
  Merge([status |-> "error", message |-> OrElse(error, "Unknown error occurred")],
        additionalData)

\* What the overridable processMessage may return: objects with and without
\* status and message, null and undefined
ReturnValues ==
  { [type |-> "object", fields |-> [status |-> "success", message |-> "ok"]],
    [type |-> "object", fields |-> [processed |-> "true"]],
    [type |-> "object", fields |-> [status |-> "error", message |-> "bad"]],
    [type |-> "object", fields |-> [status |-> "success"]],
    [type |-> "null", fields |-> <<>>],
    [type |-> "undefined", fields |-> <<>>] }

Outcomes ==
  [kind : {"throws"}, value : ThrownValues] \cup [kind : {"returns"}, value : ReturnValues]

\* The debug lines process writes before it calls processMessage
ReceivedLog(hasLogger, message, metadata) ==
  IF hasLogger
  THEN <<[level |-> "debug", text |-> safeStringify(message)],
         [level |-> "debug", text |-> safeStringify(metadata)]>>
  ELSE <<>>

\* The catch block of process: the log line and createErrorResult both read
\* error.message; a throw from inside the catch block rejects the promise
ProcessCatch(hasLogger, error, logs) ==
  IF ReadThrows(error)
  THEN [settled |-> "rejected", result |-> CannotRead(error, "message"), logs |-> logs]
  ELSE [settled |-> "resolved",
        result |-> createErrorResult(error.message, <<>>),
        logs |-> IF hasLogger
                 THEN Append(logs, [level |-> "error", text |-> error.message])
                 ELSE logs]

\* process(topic, message, metadata), given what processMessage does
process(hasLogger, topic, message, metadata, outcome) ==
  LET received == ReceivedLog(hasLogger, message, metadata)
  IN IF outcome.kind = "throws" THEN ProcessCatch(hasLogger, outcome.value, received)
     ELSE LET result == outcome.value
              logs == IF hasLogger
                      THEN Append(received, [level |-> "debug", text |-> "{...}"])
                      ELSE received
          IN IF ReadThrows(result)
             THEN ProcessCatch(hasLogger,
                               [type |-> "TypeError",
                                message |-> "Cannot read properties of null (reading 'message')"],
                               logs)
             ELSE [settled |-> "resolved",
                   result |-> createSuccessResult(
                                OrElse(Field(result.fields, "message"),
                                       "Message processed successfully"),
                                result.fields),
                   logs |-> logs]

processCall(hasLogger, topic, message, metadata, outcome) ==
  /\ procCall' = Merge(process(hasLogger, topic, message, metadata, outcome),
                       [op |-> "process", stringify |-> "safeStringify",
                        hasLogger |-> hasLogger, topic |-> topic,
                        message |-> message, metadata |-> metadata,
                        outcome |-> outcome])
  /\ UNCHANGED <<registryVars, files, now, pending, last, registeredTopics, accessor>>

\* JSON.stringify(obj, null, 2) throws a TypeError on a cycle
CircularError == [type |-> "TypeError", message |-> "Converting circular structure to JSON"]

\* createSuccessResult(result) as src/kafka-topic-processor.js calls it: the
\* returned value itself is the message argument, and nothing is spread
SuccessOfResult(result) ==
  [status |-> "success",
   message |-> IF result.type \in {"null", "undefined"}
               THEN "Message processed successfully" ELSE result]

\* process of src/kafka-topic-processor.js: the logger the constructor made
\* is always called, and its arguments are serialized with JSON.stringify
\* inside the try block
processStringify(topic, message, metadata, outcome) ==
  IF message = "cyclic" \/ metadata = "cyclic"
  THEN ProcessCatch(TRUE, CircularError, <<>>)
  ELSE LET received == <<[level |-> "debug", text |-> "{...}"],
                         [level |-> "debug", text |-> "{...}"]>>
       IN IF outcome.kind = "throws" THEN ProcessCatch(TRUE, outcome.value, received)
          ELSE [settled |-> "resolved",
                result |-> SuccessOfResult(outcome.value),
                logs |-> Append(received, [level |-> "debug", text |-> "{...}"])]

processStringifyCall(topic, message, metadata, outcome) ==
  /\ procCall' = Merge(processStringify(topic, message, metadata, outcome),
                       [op |-> "process", stringify |-> "JSON.stringify",
                        hasLogger |-> TRUE, topic |-> topic,
                        message |-> message, metadata |-> metadata,
                        outcome |-> outcome])
  /\ UNCHANGED <<registryVars, files, now, pending, last, registeredTopics, accessor>>

\* The extra objects callers spread into a result: none, without and with
\* keys named status and message
ExtraArgs ==
  { <<>>, [data |-> "x"], [status |-> "custom"], [message |-> "other"],
    [status |-> "custom", message |-> "other", data |-> "x"] }

\* The message arguments of the result builders: a text, '' and undefined
MessageArgs == {"done", "", Undefined}

createSuccessResultCall(message, additionalData) ==
  /\ procCall' = [op |-> "createSuccessResult", message |-> message,
                  additionalData |-> additionalData,
                  result |-> createSuccessResult(message, additionalData)]
  /\ UNCHANGED <<registryVars, files, now, pending, last, registeredTopics, accessor>>

createErrorResultCall(error, additionalData) ==
  /\ procCall' = [op |-> "createErrorResult", message |-> error,
                  additionalData |-> additionalData,
                  result |-> createErrorResult(error, additionalData)]
  /\ UNCHANGED <<registryVars, files, now, pending, last, registeredTopics, accessor>>

\* A topic processor called with every message, metadata and behaviour of
\* processMessage
NextProcessor ==
  \/ \E hasLogger \in BOOLEAN, t \in ValidTopics, m \in Payloads, md \in Payloads,
        outcome \in Outcomes :
       processCall(hasLogger, t, m, md, outcome)
  \/ \E t \in ValidTopics, m \in Payloads, md \in Payloads, outcome \in Outcomes :
       processStringifyCall(t, m, md, outcome)
  \/ \E message \in MessageArgs, extra \in ExtraArgs :
       createSuccessResultCall(message, extra)
  \/ \E error \in MessageArgs, extra \in ExtraArgs :
       createErrorResultCall(error, extra)

SpecProcessor == Init /\ [][NextProcessor]_vars

-----------------------------------------------------------------------------
(* Claims about the topic processor, checked under SpecProcessor *)

\* C10: process never propagates an exception: whenever processMessage
\* throws or rejects, process resolves to {status: 'error', message: <the
\* exception's message>}
C10_ProcessContainsFailures ==
  (procCall.op = "process" /\ procCall.outcome.kind = "throws")
    => /\ procCall.settled = "resolved"
       /\ procCall.result =
            [status |-> "error", message |-> procCall.outcome.value.message]

\* C11: createSuccessResult always returns status 'success' and
\* createErrorResult always returns status 'error', for every extra object:
\* the fields of extra never override the explicit status and message
C11_ExtraNeverOverrides ==
  /\ procCall.op = "createSuccessResult"
       => /\ procCall.result.status = "success"
          /\ procCall.result.message =
               OrElse(procCall.message, "Message processed successfully")
  /\ procCall.op = "createErrorResult"
       => /\ procCall.result.status = "error"
          /\ procCall.result.message =
               OrElse(procCall.message, "Unknown error occurred")

\* C12: whenever processMessage returns without throwing, whatever it
\* returns, process returns status 'success' and the returned message, or the
\* default message when there was none
C12_ReturnIsSuccess ==
  (procCall.op = "process" /\ procCall.outcome.kind = "returns")
    => /\ procCall.settled = "resolved"
       /\ procCall.result.status = "success"
       /\ procCall.result.message =
            OrElse(Field(procCall.outcome.value.fields, "message"),
                   "Message processed successfully")

\* C13: process called with a message or metadata that cannot be serialized
\* does not throw and returns status 'success' whenever processMessage itself
\* succeeds
C13_CycleSafeLogging ==
  ( /\ procCall.op = "process"
    /\ "cyclic" \in {procCall.message, procCall.metadata}
    /\ procCall.outcome.kind = "returns"
    /\ procCall.outcome.value.type = "object"
    /\ Field(procCall.outcome.value.fields, "status") \in {Undefined, "success"} )
    => /\ procCall.settled = "resolved"
       /\ procCall.result.status = "success"

-----------------------------------------------------------------------------
(* Claims about registry management, checked under Spec *)

ManagementOps == {"registerProcessor", "updateProcessor", "deregisterProcessor"}

ReadOps == {"getProcessor", "hasProcessor", "getAvailableTopics", "getProcessorInfo",
            "getAllProcessorInfo", "getRegistryStats", "getAutoRefreshStatus"}

EventNames(events) == [i \in 1..Len(events) |-> events[i].name]

C5_VersionAlwaysChanges ==
  [][(/\ last'.op \in {"registerProcessor", "updateProcessor"}
      /\ last'.result.success
      /\ MapHas(processorVersions, last'.topic))
     => last'.result.version
          # MapGet(processorVersions, last'.topic, JsUndefined).version]_vars

\* C6: register/update/deregister with a topic that is not a non-empty
\* string, and register/update with a processor lacking a callable process,
\* return {success: false, topic, error, timestamp} with the 'valid string'
\* or the 'process method' error, emit exactly one processor:error event and
\* leave the map, the version records and the counters as they were
C6_InvalidArguments ==
  [][(/\ last'.op \in ManagementOps
      /\ \/ last'.topic \notin ValidTopics
         \/ /\ last'.op \in {"registerProcessor", "updateProcessor"}
            /\ last'.processor \notin ValidProcs)
     => /\ last'.result =
             [success |-> FALSE, topic |-> last'.topic,
              error |-> IF last'.topic \notin ValidTopics
                        THEN <<"Topic must be a valid string">>
                        ELSE <<"Processor must have a process method">>,
              timestamp |-> now]
        /\ last'.events = <<[name |-> "processor:error", payload |-> last'.result]>>
        /\ UNCHANGED <<processors, processorVersions, registryStats>>]_vars

\* C6 witness: a registration refused for its processor while another topic
\* is registered
C6_Witness ==
  /\ last.op = "registerProcessor"
  /\ ~last.result.success
  /\ last.topic \in ValidTopics
  /\ last.processor \notin ValidProcs
  /\ Len(processors) > 0

\* C7: deregisterProcessor(T) and updateProcessor(T, P) on a topic T with no
\* entry fail with an error that starts 'No processor found', leave T
\* unregistered and change neither the map, the version records nor the
\* counters
C7_AbsentTopic ==
  [][(/\ last'.op \in {"deregisterProcessor", "updateProcessor"}
      /\ last'.topic \in ValidTopics
      /\ last'.op = "updateProcessor" => last'.processor \in ValidProcs
      /\ ~\E i \in 1..Len(processors) : processors[i].k = last'.topic)
     => /\ ~last'.result.success
        /\ last'.result.topic = last'.topic
        /\ last'.result.error[1] = "No processor found for topic: "
        /\ last'.result.error[2] = last'.topic.val
        /\ ~MapHas(processors', last'.topic)
        /\ MapGet(processors', last'.topic, NoProcessor) = NoProcessor
        /\ UNCHANGED <<processors, processorVersions, registryStats>>]_vars

\* C7 witness: an update refused for a topic that has no entry while another
\* topic has one
C7_Witness ==
  /\ last.op = "updateProcessor"
  /\ ~last.result.success
  /\ last.topic \in ValidTopics
  /\ last.processor \in ValidProcs
  /\ ~hasProcessor(last.topic)
  /\ Len(processors) > 0

\* C8: clear on a registry holding the set S of topics returns success with
\* topics S and clearedCount |S|, emits one registry:cleared event, and
\* leaves no topic registered: both maps are empty
C8_Clear ==
  [][last'.op = "clear"
     => /\ last'.result.success
        /\ Range(last'.result.topics) = registeredTopics
        /\ Len(last'.result.topics) = Cardinality(registeredTopics)
        /\ last'.result.clearedCount = Cardinality(registeredTopics)
        /\ EventNames(last'.events) = <<"registry:cleared">>
        /\ getAvailableTopics' = <<>>
        /\ processors' = <<>>
        /\ processorVersions' = <<>>
        /\ \A t \in TopicArgs : ~MapHas(processors', t)]_vars

\* C8 witness: a clear that removed two topics
C8_Witness ==
  /\ last.op = "clear"
  /\ last.result.clearedCount = 2
  /\ processors = <<>>

\* C9: a call of a read accessor leaves the map, the version records with
\* their version, registeredAt and updatedAt, the counters and the timer as
\* they were
C9_ReadsChangeNothing ==
  [][last'.op \in ReadOps
     => UNCHANGED <<processors, processorVersions, registryStats, processorFiles,
                    refreshTimer, timers, config>>]_vars

\* C9 witness: getRegistryStats called on a registry with an entry and an
\* armed timer
C9_Witness ==
  /\ last.op = "getRegistryStats"
  /\ last.result.currentProcessors > 0
  /\ TimerArmed

-----------------------------------------------------------------------------
(* Auto-refresh: the timer and its background passes *)

\* registry.startAutoRefresh()
startAutoRefresh ==
  /\ \E started \in {startAutoRefreshOn(refreshTimer, timers)} :
       /\ refreshTimer' = started.refreshTimer
       /\ timers' = started.timers
  /\ last' = [op |-> "startAutoRefresh", events |-> <<>>]
  /\ UNCHANGED <<processors, processorVersions, registryStats, processorFiles, config,
                 files, now, pending, registeredTopics, procCall, accessor>>

\* registry.stopAutoRefresh(): no file watcher is ever created, so only the
\* timer is cleared
stopAutoRefresh ==
  /\ timers' = IF refreshTimer # 0 THEN timers \ {refreshTimer} ELSE timers
  /\ refreshTimer' = 0
  /\ last' = [op |-> "stopAutoRefresh", events |-> <<>>]
  /\ UNCHANGED <<processors, processorVersions, registryStats, processorFiles, config,
                 files, now, pending, registeredTopics, procCall, accessor>>

\* The interval callback of an armed timer: refreshProcessors() with no
\* options, hence a pass without a topic source, whose rejection the
\* callback catches and logs.  autoRefreshCount is followed up to MaxPasses;
\* the record of the pass carries a number that alternates between 0 and 1
\* over successive passes.
refreshTick(handle) ==
  /\ handle \in timers
  /\ \E out \in {autoDiscoverProcessorsOn(Registry, processorFiles, FALSE,
                                          ListTopics([kind |-> "none"]))} :
       /\ processors' = out.reg.processors
       /\ processorVersions' = out.reg.processorVersions
       /\ registryStats' =
            [out.reg.registryStats EXCEPT
               !.autoRefreshCount = IF @ > MaxPasses THEN MaxPasses ELSE @]
       /\ processorFiles' = out.processorFiles
       /\ registeredTopics' = AfterEvents(registeredTopics, out.events)
       /\ last' = [op |-> "refreshTick", tick |-> IF last.op = "refreshTick" THEN 1 - last.tick ELSE 0, settled |-> out.settled,
                   logged |-> IF out.settled = "rejected" THEN out.result ELSE JsUndefined,
                   events |-> out.events, loaded |-> out.loaded]
  /\ UNCHANGED <<refreshTimer, timers, config, files, now, pending, procCall, accessor>>

\* The timer started and stopped by callers while files come and go, with
\* registrations made as a pass with a topic source would make them
NextRefresh ==
  \/ startAutoRefresh
  \/ stopAutoRefresh
  \/ \E h \in timers : refreshTick(h)
  \/ getAutoRefreshStatusCall
  \/ \E f \in FilePaths : registerProcessor(BaseName(f), 3, DiscoveryOptions(f))
  \/ \E f \in FilePaths, e \in FileExports : writeFile(f, e)
  \/ \E f \in FilePaths : unlinkFile(f)
  \/ Tick

\* setInterval keeps calling the callback of an armed timer
SpecRefresh ==
  Init /\ [][NextRefresh]_vars /\ WF_vars(\E h \in timers : refreshTick(h))

\* C21: at most one refresh timer is armed, and it is the one the registry
\* holds; startAutoRefresh leaves exactly one timer armed, also when one was
\* armed before; stopAutoRefresh leaves none; a background pass runs only
\* for an armed timer; getAutoRefreshStatus().isRunning is true exactly when
\* a timer is armed
C21_AtMostOneTimer ==
  /\ Cardinality(timers) <= 1
  /\ timers = (IF refreshTimer # 0 THEN {refreshTimer} ELSE {})
  /\ last.op = "startAutoRefresh" => Cardinality(timers) = 1
  /\ last.op = "stopAutoRefresh" => timers = {}
  /\ last.op = "getAutoRefreshStatus" => (last.result.isRunning <=> timers # {})

\* C21 witness: startAutoRefresh called on a registry whose constructor had
\* armed the timer and that has since run a background pass
C21_Witness ==
  /\ last.op = "startAutoRefresh"
  /\ config.autoRefresh
  /\ registryStats.autoRefreshCount > 0
  /\ timers # {}

\* C22: while the timer stays armed, a loadable processor file present in
\* the directory whose topic has no processor is eventually registered by
\* the background passes
C22_BackgroundPassRegisters ==
  \A f \in FilePaths :
    (TimerArmed /\ ExistsSync(f) /\ Loadable(f) /\ ~hasProcessor(BaseName(f)))
      ~> (hasProcessor(BaseName(f)) \/ ~TimerArmed \/ ~ExistsSync(f) \/ ~Loadable(f))

\* C23: no processor instance is the registered processor of two different
\* topics at the same time
C23_NoSharedProcessor ==
  \A i, j \in 1..Len(processors) :
    processors[i].v = processors[j].v => i = j

\* C24: a dispatch that looked up processor P for topic T and is waiting for
\* P.process settles as a returned result carrying P's type name, T and the
\* fields P resolved with, also when T has since been deregistered, replaced
\* or cleared, and leaves the map, the versions and the counters alone; a
\* dispatch for a topic that has no entry when it starts returns the 'No
\* processor found' error; neither rejects
C24_PendingDispatchKeepsProcessor ==
  [][/\ \A i \in 1..Len(pending) :
          (/\ last'.op = "processMessageSettle"
           /\ pending' = SubSeq(pending, 1, i - 1) \o SubSeq(pending, i + 1, Len(pending))
           /\ getProcessor(pending[i].topic) # pending[i].processor)
          => /\ last'.settled = "resolved"
             /\ last'.result.topic = pending[i].topic
             /\ last'.result.processor = TypeName(pending[i].processor)
             /\ last'.behaviour.kind = "resolves"
                  => \A f \in DOMAIN last'.behaviour.value.fields
                                \ {"topic", "processor", "timestamp"} :
                       last'.result[f] = last'.behaviour.value.fields[f]
             /\ UNCHANGED <<processors, processorVersions, registryStats>>
     /\ (last'.op = "processMessage" /\ ~hasProcessor(last'.topic))
          => /\ last'.settled = "resolved"
             /\ last'.result.message = NotFoundError(last'.topic)
             /\ UNCHANGED <<processors, processorVersions, registryStats>>]_vars

\* C25: every dispatch waiting for its processor can resume as soon as the
\* processor's promise settles, whichever way it settles, whatever other
\* dispatches are still waiting and whether or not a discovery pass is
\* waiting for the topic list
C25_DispatchesIndependent ==
  \A i \in 1..Len(pending) :
    \A b \in {x \in Behaviours : x.kind \in {"resolves", "rejects"}} :
      ENABLED processMessageSettle(i, b)

\* C25 witness: the dispatch for one topic has returned while an earlier
\* dispatch for another topic is still waiting for its processor and a
\* discovery pass is waiting for the topic list
C25_Witness ==
  /\ last.op = "processMessageSettle"
  /\ last.settled = "resolved"
  /\ Len(pending) = 1
  /\ pending[1].topic # last.topic
  /\ Len(accessor.listing) = 1

-----------------------------------------------------------------------------
(* KafkaAccessor: the consumer *)

\* accessor.startConsumer(): when this.consumer is null, initConsumer
\* assigns a new consumer to this.consumer and then connects it. When the
\* connection fails the catch block logs and rethrows, and the assignment
\* stands. When it succeeds, one discovery pass runs with the accessor as
\* topic source and the consumer is subscribed to the topics the registry
\* then holds, unless there are none; a pass that rejects leaves the
\* consumer connected and unsubscribed
startConsumer(kafka, connects) ==
  IF accessor.consumer # "null"
  THEN /\ last' = [op |-> "startConsumer", settled |-> "resolved", events |-> <<>>]
       /\ UNCHANGED <<registryVars, files, now, pending, registeredTopics, procCall,
                      accessor>>
  ELSE IF ~connects
  THEN /\ accessor' = [accessor EXCEPT !.consumer = "created"]
       /\ last' = [op |-> "startConsumer", settled |-> "rejected", events |-> <<>>]
       /\ UNCHANGED <<registryVars, files, now, pending, registeredTopics, procCall>>
  ELSE /\ kafka.kind # "none"
       /\ registryStats.autoRefreshCount < MaxPasses
       /\ DiscoveryPass(FALSE, kafka)
       /\ last'.events # <<>> => OpBudget
       /\ accessor' =
            [accessor EXCEPT
               !.consumer = "connected",
               !.subscribed = IF last'.settled = "resolved"
                              THEN Range(MapKeys(processors')) ELSE {},
               !.running = (last'.settled = "resolved" /\ processors' # EmptyMap)]

\* The eachMessage callback given to consumer.run: the client delivers a
\* message of a subscribed topic and the callback dispatches it
eachMessage(topic) ==
  /\ accessor.running
  /\ topic \in accessor.subscribed
  /\ processMessage(topic, FALSE, JsUndefined)

\* How the eachMessage callback settles once the dispatch it awaited has
\* settled: the value processMessage resolved with is dropped and the
\* callback returns; only a rejection reaches the catch block, which logs
\* and rethrows
eachMessageOutcome(dispatch) ==
  IF dispatch.settled = "rejected"
  THEN [settled |-> "rejected", error |-> dispatch.result]
  ELSE [settled |-> "resolved", value |-> JsUndefined]

\* getHealthStatus().consumer: connected is this.consumer !== null and
\* initialized is !!this.consumer
getHealthStatus ==
  [consumer |-> [connected |-> accessor.consumer # "null",
                 initialized |-> accessor.consumer # "null"]]

\* The consumer started while files come and go, with discovery passes run
\* by callers and by the timer, and messages delivered
NextConsumer ==
  \/ \E kafka \in KafkaArgs, connects \in BOOLEAN : startConsumer(kafka, connects)
  \/ \E t \in ValidTopics : eachMessage(t)
  \/ \E i \in 1..MaxPending, b \in Behaviours : processMessageSettle(i, b)
  \/ \E kafka \in KafkaArgs : autoDiscoverProcessors(FALSE, kafka)
  \/ \E h \in timers : refreshTick(h)
  \/ \E f \in FilePaths, e \in FileExports : writeFile(f, e)
  \/ \E f \in FilePaths : unlinkFile(f)
  \/ Tick

\* An accessor constructed with the defaults, so that the registry's timer
\* is armed; setInterval keeps calling the callback of the armed timer
SpecConsumer ==
  /\ Constructor(TRUE, DefaultFileExtensions)
  /\ [][NextConsumer]_vars
  /\ WF_vars(\E h \in timers : refreshTick(h))

\* C26: once the consumer has been started, a topic that has a processor
\* registered by discovery is eventually among the consumer's subscriptions
\* (or no longer has the processor)
C26_DiscoveredTopicSubscribed ==
  \A t \in ValidTopics :
    (accessor.consumer = "connected" /\ hasProcessor(t))
      ~> (t \in accessor.subscribed \/ ~hasProcessor(t))

-----------------------------------------------------------------------------
(* KafkaAccessor.getMessageFromTopic *)

\* message.value of the messages the dedicated consumer delivers: JSON
\* text, text that is not JSON, and no value
MessageValues ==
  { Str("{\"message\":\"first\"}"), Str("{\"message\":\"second\"}"),
    Str("invalid-json"), JsNull }

\* JSON.parse(message.value.toString()) inside the callback's try block
ParseJson(value) ==
  IF ReadThrows(value)
  THEN [ok |-> FALSE, error |-> CannotRead(value, "toString").message]
  ELSE IF value = Str("{\"message\":\"first\"}")
  THEN [ok |-> TRUE, value |-> [message |-> "first"]]
  ELSE IF value = Str("{\"message\":\"second\"}")
  THEN [ok |-> TRUE, value |-> [message |-> "second"]]
  ELSE [ok |-> FALSE, error |-> <<"Unexpected token i in JSON at position 0">>]

\* resolve(value) and reject(error) of messagePromise: only the first call
\* settles the promise.  first is history: the event that called first.
Settle(call, outcome, event) ==
  [call EXCEPT !.promise = IF @.state = "pending" THEN outcome ELSE @,
               !.first = IF @.kind = "none" THEN event ELSE @]

\* getMessageFromTopic(topic, {timeout}) up to "await
\* dedicatedConsumer.connect()"
getMessageFromTopic(topic, timeout) ==
  /\ accessor.call.pc \in {"idle", "done"}
  /\ accessor' =
       [accessor EXCEPT
          !.call = [pc |-> "connecting", topic |-> topic, timeout |-> timeout,
                    messageReceived |-> FALSE, timeoutId |-> "null", run |-> "none",
                    promise |-> [state |-> "pending"], first |-> [kind |-> "none"],
                    delivered |-> 0, parsed |-> 0, disconnects |-> 0,
                    disconnected |-> "no", result |-> [state |-> "pending"],
                    returned |-> [state |-> "pending"]]]
  /\ UNCHANGED <<registryVars, files, now, pending, last, registeredTopics, procCall>>

\* connect() or subscribe() of the dedicated consumer settles.  A failure
\* goes through the catch block, which rethrows, to the finally block, which
\* calls disconnect(); after subscribe() the promise executor arms the
\* timeout when one was asked for and calls run()
setupSettles(ok) ==
  /\ accessor.call.pc \in {"connecting", "subscribing"}
  /\ accessor' =
       [accessor EXCEPT
          !.call =
            IF ~ok
            THEN [@ EXCEPT
                    !.pc = "disconnecting", !.disconnects = @ + 1,
                    !.result =
                      [state |-> "rejected",
                       error |-> [type |-> "Error",
                                  message |-> IF accessor.call.pc = "connecting"
                                              THEN <<"Connection failed">>
                                              ELSE <<"Subscription failed">>]]]
            ELSE IF @.pc = "connecting"
            THEN [@ EXCEPT !.pc = "subscribing"]
            ELSE [@ EXCEPT !.pc = "waiting", !.run = "called",
                           !.timeoutId = IF accessor.call.timeout THEN "armed" ELSE "null"]]
  /\ UNCHANGED <<registryVars, files, now, pending, last, registeredTopics, procCall>>

\* The promise run() returned settles; .catch(reject) passes a failure on
runSettles(ok) ==
  /\ accessor.call.pc \in {"waiting", "disconnecting", "done"}
  /\ accessor.call.run = "called"
  /\ accessor' =
       [accessor EXCEPT
          !.call =
            IF ok THEN [@ EXCEPT !.run = "started"]
            ELSE Settle([@ EXCEPT !.run = "failed"],
                        [state |-> "rejected",
                         error |-> [type |-> "Error", message |-> <<"Run failed">>]],
                        [kind |-> "runFailed"])]
  /\ UNCHANGED <<registryVars, files, now, pending, last, registeredTopics, procCall>>

\* The eachMessage callback with every message parsed, also after the first
deliverEvery(value) ==
  /\ accessor.call.pc \in {"waiting", "disconnecting", "done"}
  /\ accessor.call.run \in {"called", "started"}
  /\ accessor.call.disconnected # "yes"
  /\ accessor.call.delivered < MaxMessages
  /\ accessor' =
       [accessor EXCEPT
          !.call =
            LET seen == [@ EXCEPT !.delivered = @ + 1]
                message == [topic |-> seen.topic, offset |-> seen.delivered,
                            value |-> value]
                payload == ParseJson(value)
                taken == [seen EXCEPT
                            !.messageReceived = TRUE, !.parsed = @ + 1,
                            !.timeoutId = IF @ = "armed" THEN "cleared" ELSE @]
            IN Settle(taken,
                      IF payload.ok
                      THEN [state |-> "resolved",
                            value |-> [topic |-> message.topic,
                                       offset |-> message.offset,
                                       value |-> payload.value]]
                      ELSE [state |-> "rejected",
                            error |-> [type |-> "Error",
                                       message |-> <<"Failed to parse message: ">>
                                                     \o payload.error]],
                      [kind |-> "message", message |-> message])]
  /\ UNCHANGED <<registryVars, files, now, pending, last, registeredTopics, procCall>>

\* The eachMessage callback of the dedicated consumer: the client delivers
\* a message while the consumer runs.  After the first call it returns at
\* once; the first call clears the timeout, parses the payload and
\* resolves, or rejects when the payload does not parse
deliver(value) ==
  /\ accessor.call.pc \in {"waiting", "disconnecting", "done"}
  /\ accessor.call.run \in {"called", "started"}
  /\ accessor.call.disconnected # "yes"
  /\ accessor.call.delivered < MaxMessages
  /\ accessor' =
       [accessor EXCEPT
          !.call =
            LET seen == [@ EXCEPT !.delivered = @ + 1]
                message == [topic |-> seen.topic, offset |-> seen.delivered,
                            value |-> value]
                payload == ParseJson(value)
                taken == [seen EXCEPT
                            !.messageReceived = TRUE, !.parsed = @ + 1,
                            !.timeoutId = IF @ = "armed" THEN "cleared" ELSE @]
            IN IF seen.messageReceived THEN seen
               ELSE Settle(taken,
                      IF payload.ok
                      THEN [state |-> "resolved",
                            value |-> [topic |-> message.topic,
                                       offset |-> message.offset,
                                       value |-> payload.value]]
                      ELSE [state |-> "rejected",
                            error |-> [type |-> "Error",
                                       message |-> <<"Failed to parse message: ">>
                                                     \o payload.error]],
                      [kind |-> "message", message |-> message])]
  /\ UNCHANGED <<registryVars, files, now, pending, last, registeredTopics, procCall>>

\* The setTimeout callback: it rejects unless a message or an earlier
\* expiry has set messageReceived
timeoutFires ==
  /\ accessor.call.pc \in {"waiting", "disconnecting", "done"}
  /\ accessor.call.timeoutId = "armed"
  /\ accessor' =
       [accessor EXCEPT
          !.call =
            IF @.messageReceived THEN [@ EXCEPT !.timeoutId = "fired"]
            ELSE Settle([@ EXCEPT !.timeoutId = "fired", !.messageReceived = TRUE],
                        [state |-> "rejected",
                         error |-> [type |-> "Error",
                                    message |-> <<"Timeout waiting for message from topic: ",
                                                  @.topic.val>>]],
                        [kind |-> "timeout"])]
  /\ UNCHANGED <<registryVars, files, now, pending, last, registeredTopics, procCall>>

\* "await messagePromise" resumes once the promise has settled: the value is
\* the return value, or the error goes through the catch block, which
\* rethrows it; either way the finally block calls disconnect()
getMessageFromTopicResume ==
  /\ accessor.call.pc = "waiting"
  /\ accessor.call.promise.state # "pending"
  /\ accessor' =
       [accessor EXCEPT
          !.call = [@ EXCEPT !.pc = "disconnecting", !.disconnects = @ + 1,
                             !.result = accessor.call.promise]]
  /\ UNCHANGED <<registryVars, files, now, pending, last, registeredTopics, procCall>>

\* The finally block without its own try/catch: a failure of disconnect()
\* becomes the outcome of the call
disconnectSettlesRethrowing(ok) ==
  /\ accessor.call.pc = "disconnecting"
  /\ accessor' =
       [accessor EXCEPT
          !.call = [@ EXCEPT
                      !.pc = "done",
                      !.disconnected = IF ok THEN "yes" ELSE "failed",
                      !.returned =
                        IF ok THEN accessor.call.result
                        ELSE [state |-> "rejected",
                              error |-> [type |-> "Error",
                                         message |-> <<"Disconnect failed">>]]]]
  /\ UNCHANGED <<registryVars, files, now, pending, last, registeredTopics, procCall>>

\* disconnect() of the dedicated consumer settles inside the finally block:
\* a failure is caught and logged there, and the call returns or throws
\* what it was about to
disconnectSettles(ok) ==
  /\ accessor.call.pc = "disconnecting"
  /\ accessor' =
       [accessor EXCEPT
          !.call = [@ EXCEPT !.pc = "done",
                             !.disconnected = IF ok THEN "yes" ELSE "failed",
                             !.returned = accessor.call.result]]
  /\ UNCHANGED <<registryVars, files, now, pending, last, registeredTopics, procCall>>

\* Calls of getMessageFromTopic, one after the other, against a client
\* whose operations succeed or fail and that delivers messages
NextGetMessage ==
  \/ \E t \in ValidTopics, timeout \in BOOLEAN : getMessageFromTopic(t, timeout)
  \/ \E ok \in BOOLEAN : setupSettles(ok)
  \/ \E ok \in BOOLEAN : runSettles(ok)
  \/ \E v \in MessageValues : deliver(v)
  \/ timeoutFires
  \/ getMessageFromTopicResume
  \/ \E ok \in BOOLEAN : disconnectSettles(ok)

SpecGetMessage == Init /\ [][NextGetMessage]_vars

\* C27: a call of getMessageFromTopic has called disconnect() on its
\* dedicated consumer exactly once by the time it returns or throws, and
\* not before it leaves the try block; what it returns or throws is what it
\* was about to before disconnect() settled, whether disconnect() succeeded
\* or failed
C27_DisconnectsOnce ==
  accessor.call.pc # "idle"
    => /\ accessor.call.disconnects
            = (IF accessor.call.pc \in {"disconnecting", "done"} THEN 1 ELSE 0)
       /\ accessor.call.pc = "done"
            => /\ accessor.call.returned.state \in {"resolved", "rejected"}
               /\ accessor.call.returned = accessor.call.result
               /\ accessor.call.first.kind # "none"
                    => accessor.call.returned = accessor.call.promise

\* C27 witness: a call has returned the message it received although
\* disconnect() failed
C27_Witness ==
  /\ accessor.call.pc = "done"
  /\ accessor.call.disconnected = "failed"
  /\ accessor.call.disconnects = 1
  /\ accessor.call.returned.state = "resolved"

\* How messagePromise settles, given the event that came first
OutcomeOf(call) ==
  IF call.first.kind = "timeout"
  THEN [state |-> "rejected",
        error |-> [type |-> "Error",
                   message |-> <<"Timeout waiting for message from topic: ",
                                 call.topic.val>>]]
  ELSE IF call.first.kind = "runFailed"
  THEN [state |-> "rejected",
        error |-> [type |-> "Error", message |-> <<"Run failed">>]]
  ELSE IF ParseJson(call.first.message.value).ok
  THEN [state |-> "resolved",
        value |-> [topic |-> call.topic, offset |-> call.first.message.offset,
                   value |-> ParseJson(call.first.message.value).value]]
  ELSE [state |-> "rejected",
        error |-> [type |-> "Error",
                   message |-> <<"Failed to parse message: ">>
                                 \o ParseJson(call.first.message.value).error]]

\* C28, as stated: when a message is the first event, the call's promise is
\* resolved with that message
C28_ResolvesWithFirstMessage ==
  (accessor.call.pc # "idle" /\ accessor.call.first.kind = "message")
    => /\ accessor.call.promise.state = "resolved"
       /\ accessor.call.promise.value.offset = accessor.call.first.message.offset

\* C28, amended: the promise of a call settles once, as the first event
\* decides: a first message resolves it with that message when its payload
\* parses and rejects it with the parse failure otherwise, a first expiry of
\* the timeout rejects it with the timeout error, a first failure of run()
\* rejects it with that failure; later events leave it as it is; at most
\* one message is parsed, later ones are ignored; a first message leaves no
\* timeout armed
C28_SettlesOnce ==
  accessor.call.pc # "idle"
    => /\ accessor.call.parsed <= 1
       /\ accessor.call.promise.state = "pending" <=> accessor.call.first.kind = "none"
       /\ accessor.call.first.kind # "none"
            => accessor.call.promise = OutcomeOf(accessor.call)
       /\ accessor.call.first.kind = "message"
            => accessor.call.timeoutId \in {"null", "cleared"}

\* C28 witness: a call with a timeout received two messages; the first
\* resolved it and cancelled the timeout
C28_Witness ==
  /\ accessor.call.pc = "done"
  /\ accessor.call.timeout
  /\ accessor.call.delivered = 2
  /\ accessor.call.first.kind = "message"
  /\ accessor.call.returned.state = "resolved"
  /\ accessor.call.timeoutId = "cleared"

-----------------------------------------------------------------------------
(* clear() when one of its steps throws *)

\* The steps inside clear's try block that run code the registry does not
\* own: the two Map.prototype.clear calls (replaceable, as the test suite
\* does with jest.spyOn) and the listeners of registry:cleared
ClearSteps == {"processors.clear", "processorVersions.clear", "registry:cleared listener"}

\* clear when the step throws an Error: the steps before it have run, the
\* catch block builds the failure result and emits registry:error
clearThrowingOn(reg, options, step) ==
  LET topics == MapKeys(reg.processors)
      clearedCount == Len(topics)
      result == [success |-> FALSE, error |-> "Clear failed", timestamp |-> now]
      error == [name |-> "registry:error", payload |-> result]
  IN IF step = "processors.clear"
     THEN [reg |-> reg, result |-> result, events |-> <<error>>]
     ELSE IF step = "processorVersions.clear"
     THEN [reg |-> [reg EXCEPT !.processors = EmptyMap],
           result |-> result, events |-> <<error>>]
     ELSE [reg |-> [processors |-> EmptyMap,
                    processorVersions |-> EmptyMap,
                    registryStats |-> [reg.registryStats EXCEPT !.lastUpdated = now]],
           result |-> result,
           events |-> <<[name |-> "registry:cleared",
                         payload |-> [clearedCount |-> clearedCount, topics |-> topics,
                                      options |-> options]],
                        error>>]

clearThrowing(options, step) ==
  Call("clear", [options |-> options, thrown |-> step],
       clearThrowingOn(Registry, options, step))

\* A call whose lifecycle event reaches a listener that throws an Error:
\* emit rethrows it inside the try block, after the statements before the
\* emit have run (registerProcessor sets lastUpdated after the emit, the two
\* others before it); the catch block builds the failure result and emits
\* processor:error. A call that fails its checks emits no lifecycle event
listenerThrowsOn(op, reg, topic, out) ==
  IF ~out.result.success THEN out
  ELSE LET failed == Failed(reg, topic, <<"listener failed">>)
           stats == IF op = "registerProcessor"
                    THEN [out.reg.registryStats EXCEPT
                            !.lastUpdated = reg.registryStats.lastUpdated]
                    ELSE out.reg.registryStats
       IN [reg |-> [out.reg EXCEPT !.registryStats = stats],
           result |-> failed.result,
           events |-> out.events \o failed.events]

listenerThrows(op, topic, processor, options) ==
  Call(op, [topic |-> topic, processor |-> processor, options |-> options,
            thrown |-> "listener"],
       listenerThrowsOn(op, Registry, topic,
         CASE op = "registerProcessor" ->
                registerProcessorOn(Registry, topic, processor, options)
           [] op = "updateProcessor" ->
                updateProcessorOn(Registry, topic, processor, options)
           [] OTHER -> deregisterProcessorOn(Registry, topic, options)))

\* Registrations and clears, with clear's steps and the listeners of the
\* lifecycle events failing at times
NextFaults ==
  \/ \E op \in {"registerProcessor", "updateProcessor", "deregisterProcessor"},
        t \in ValidTopics, p \in ValidProcs, o \in OptionArgs :
       listenerThrows(op, t, p, o)
  \/ \E t \in ValidTopics, p \in ValidProcs, o \in OptionArgs : registerProcessor(t, p, o)
  \/ \E t \in ValidTopics, o \in OptionArgs : deregisterProcessor(t, o)
  \/ \E o \in OptionArgs : clear(o)
  \/ \E o \in OptionArgs, step \in ClearSteps : clearThrowing(o, step)
  \/ Tick

SpecFaults == Init /\ [][NextFaults]_vars

\* C29: when a step inside clear throws, clear returns {success: false,
\* error}, emits exactly one event, registry:error, and leaves the processor
\* map and the version map as they were before the call, with the same keys
\* as each other
C29_ClearAllOrNothing ==
  [][(last'.op = "clear" /\ "thrown" \in DOMAIN last')
     => /\ last'.result.success = FALSE
        /\ last'.result.error = "Clear failed"
        /\ EventNames(last'.events) = <<"registry:error">>
        /\ processors' = processors
        /\ processorVersions' = processorVersions
        /\ MapKeys(processors') = MapKeys(processorVersions')]_vars

\* C30: a result processMessage returns for a topic with a processor has
\* the dispatch topic as topic, the type name of the looked-up processor as
\* processor and the registry's clock reading as timestamp, whatever fields
\* of those names the processor's own result has, and carries every other
\* field of the processor's result unchanged and no further field
C30_RegistryFieldsWin ==
  [][/\ \A i \in 1..Len(pending) :
          (/\ last'.op = "processMessageSettle"
           /\ last'.settled = "resolved"
           /\ pending' = SubSeq(pending, 1, i - 1) \o SubSeq(pending, i + 1, Len(pending)))
          => /\ last'.result.topic = pending[i].topic
             /\ last'.result.processor = TypeName(pending[i].processor)
             /\ last'.result.timestamp = now'
             /\ last'.behaviour.kind = "resolves"
                  => /\ DOMAIN last'.result
                          = DOMAIN last'.behaviour.value.fields
                              \cup {"topic", "processor", "timestamp"}
                     /\ \A f \in DOMAIN last'.behaviour.value.fields
                                   \ {"topic", "processor", "timestamp"} :
                          last'.result[f] = last'.behaviour.value.fields[f]
     /\ (/\ last'.op = "processMessage"
         /\ last'.settled = "resolved"
         /\ hasProcessor(last'.topic))
          => /\ last'.result.topic = last'.topic
             /\ last'.result.processor = TypeName(getProcessor(last'.topic))
             /\ last'.result.timestamp = now']_vars

\* C30 witness: a dispatch has returned the result of a processor that
\* resolved with topic, processor and timestamp fields of its own, after the
\* clock had advanced
C30_Witness ==
  /\ last.op = "processMessageSettle"
  /\ last.settled = "resolved"
  /\ last.behaviour.kind = "resolves"
  /\ {"topic", "processor", "timestamp", "message"} \subseteq DOMAIN last.behaviour.value.fields
  /\ last.result.topic = last.topic
  /\ last.result.timestamp = now
  /\ now > 0
  /\ last.result.message = "ok"

\* C31: when the processor of a consumed message fails (it throws, or its
\* promise rejects, so that the dispatch yields an error result), the
\* eachMessage callback rejects, handing the error back to the client
C31_HandlerRethrows ==
  (/\ last.op = "processMessageSettle"
   /\ last.behaviour.kind = "rejects")
    => eachMessageOutcome(last).settled = "rejected"

\* C32: a pass without forceRefresh whose topic list holds the topic
\* registers a topic again when its loadable file is in the directory and
\* discovery had registered it from that file before (the file record is
\* there) but the registry no longer has a processor for it
C32_RemovedTopicComesBack ==
  [][ ( /\ last'.op = "autoDiscoverProcessors"
        /\ ~last'.forceRefresh
        /\ last'.kafka.kind = "lists" )
      => \A f \in Range(scanProcessorFiles) :
           ( /\ BaseName(f) \in Range(ListTopics(last'.kafka).topics)
             /\ Loadable(f)
             /\ MapHas(processorFiles, BaseName(f))
             /\ ~hasProcessor(BaseName(f)) )
             => MapHas(processors', BaseName(f)) ]_vars

\* C33: a discovery pass leaves the processor of a topic that was registered
\* without discovery provenance (options null, or with no source
\* 'auto-discovery') in place
C33_ManualProcessorKept ==
  [][ last'.op = "autoDiscoverProcessors"
      => \A topic \in ValidTopics :
           ( /\ hasProcessor(topic)
             /\ \E options \in {MapGet(processorVersions, topic, JsUndefined).options} :
                  options.type = "null" \/ options.source # "auto-discovery" )
             => MapGet(processors', topic, NoProcessor)
                  = MapGet(processors, topic, NoProcessor) ]_vars

\* C34: the processor map and the version-record map have the same key set
\* in every state reached by register, update, deregister, clear and
\* discovery passes
C34_SameKeySets ==
  Range(MapKeys(processors)) = Range(MapKeys(processorVersions))

\* A discovery pass has registered a topic next to one registered by a
\* direct call
C34_Witness ==
  /\ last.op = "autoDiscoverProcessors"
  /\ last.events # <<>>
  /\ Len(processors) = 2
  /\ Len(processorVersions) = 2

\* C35: whenever registerProcessor, updateProcessor or deregisterProcessor
\* returns success:false, the processor map, the version records and the
\* counters are as they were before the call, also when a listener of the
\* lifecycle event throws
C35_FailureChangesNothing ==
  [][ ( /\ last'.op \in {"registerProcessor", "updateProcessor",
                         "deregisterProcessor"}
        /\ ~last'.result.success )
      => /\ processors' = processors
         /\ processorVersions' = processorVersions
         /\ registryStats' = registryStats ]_vars

\* C36: after every step getRegistryStats reports currentProcessors =
\* totalRegistered - totalDeregistered, and totalUpdated grows by one exactly
\* in the calls that replace an existing entry successfully
C36_CountersAgree ==
  [][ /\ \E stats \in {getRegistryStats'} :
           stats.currentProcessors
             = stats.totalRegistered - stats.totalDeregistered
      /\ registryStats'.totalUpdated =
           IF /\ last'.op \in {"registerProcessor", "updateProcessor"}
              /\ last'.result.success
              /\ last'.result.action = "updated"
           THEN registryStats.totalUpdated + 1
           ELSE registryStats.totalUpdated ]_vars

\* C37: a step that leaves a topic registered leaves the registeredAt of its
\* version record as it was, and registeredAt <= updatedAt in the record
C37_RegisteredAtKept ==
  [][ \A topic \in ValidTopics :
        (hasProcessor(topic) /\ MapHas(processors', topic))
          => \E old \in {MapGet(processorVersions, topic, JsUndefined)},
                new \in {MapGet(processorVersions', topic, JsUndefined)} :
               /\ new.registeredAt = old.registeredAt
               /\ new.registeredAt <= new.updatedAt ]_vars

\* C38: a pass without forceRefresh that directly follows a completed pass
\* with the same topic lister, over the directory and the registry that pass
\* left, changes neither map nor the file records and emits no lifecycle
\* event, also when two candidate files share a base name
C38_UnchangedPassIsNoOp ==
  [][ ( /\ last.op = "autoDiscoverProcessors"
        /\ last.settled = "resolved"
        /\ last'.op = "autoDiscoverProcessors"
        /\ ~last'.forceRefresh
        /\ last'.kafka = last.kafka )
      => /\ processors' = processors
         /\ processorVersions' = processorVersions
         /\ processorFiles' = processorFiles
         /\ last'.events = <<>> ]_vars

\* C40: in a pass without forceRefresh whose topic lister does not abort the
\* pass, a candidate file that has a file record and whose statSync throws
\* is not skipped: it is loaded again unless the topic filter skips it, and
\* the pass returns success:true
C40_StatFailureFailsOpen ==
  [][ ( /\ last'.op = "autoDiscoverProcessors"
        /\ ~last'.forceRefresh
        /\ ~ListTopics(last'.kafka).thrown )
      => /\ last'.settled = "resolved"
         /\ last'.result.success
         /\ \A f \in Range(scanProcessorFiles) :
              (MapHas(processorFiles, BaseName(f)) /\ ~files[f].stat)
                => (f \in Range(last'.loaded)
                      <=> ~TopicFiltered(BaseName(f), ListTopics(last'.kafka))) ]_vars

\* A pass without forceRefresh has loaded a file again whose statSync
\* throws and whose file record an earlier pass wrote
C40_Witness ==
  /\ last.op = "autoDiscoverProcessors"
  /\ ~last.forceRefresh
  /\ last.settled = "resolved"
  /\ \E f \in DOMAIN files :
       /\ ~files[f].stat
       /\ f \in Range(last.loaded)
       /\ MapHas(processorFiles, BaseName(f))
       /\ MapGet(processorFiles, BaseName(f), JsUndefined).filePath = f

\* C39: after a startConsumer call that fails because the consumer cannot
\* connect, getHealthStatus reports the consumer as not initialized, and a
\* later startConsumer call initializes it again: it does not resolve while
\* the consumer is still unconnected
C39_FailedConnectRetried ==
  [][ /\ (last'.op = "startConsumer" /\ last'.settled = "rejected")
           => ~getHealthStatus'.consumer.initialized
      /\ (last'.op = "startConsumer" /\ last'.settled = "resolved")
           => accessor'.consumer = "connected" ]_vars

====
